---- MODULE Spec2Model ----
(***************************************************************************)
(* A model of the Maqui compiler front end (go.maqui.dev/pkg):             *)
(*   - the recursive-descent Parser over a Tokenizer's token stream        *)
(*     (pkg/parser.go),                                                    *)
(*   - the ContextAnalyzer's two phases DefineInto and Do, its type        *)
(*     resolution and the SymbolTable (pkg/semantics.go),                  *)
(*   - Compiler.Compile and the LLVM lowering's value environment          *)
(*     (pkg/ir.go),                                                        *)
(*   - the Lexer's state functions and its token channel.                  *)
(*                                                                         *)
(* The specifications share the variables:                                 *)
(*   ParseSpec  tokens -> Parser.Run / Parser.Do                           *)
(*   Spec       expressions -> DefineInto -> Do -> Compile -> lowering     *)
(*   TypeSpec   Type.Equals over constructed types                         *)
(*   AnalyzeSpec  DefineInto, Do and a second Do on the same analyzer      *)
(*   LexSpec    Lexer.Do and Lexer.Get over bounded inputs                 *)
(***************************************************************************)
EXTENDS Integers, Sequences, FiniteSets, TLC

VARIABLES
    \* ---- Parser (pkg/parser.go) ----
    toks,      \* what the Tokenizer delivers, in order, ending with its sentinel
    mode,      \* "Run" or "Do": the entry point of the Parser that is running
    tpos,      \* number of tokens already fetched with tokenizer.Get()
    buf,       \* Parser.buf, the single-slot lookahead (NoTok when nil)
    stmts,     \* ast.Statements being built by Parser.Run
    output,    \* Parser.output, the channel of capacity 2 filled by Parser.Do
    closed,    \* TRUE once Parser.Do has closed its channel
    recv,      \* the expressions a consumer obtained with Parser.Get()
    ppc,       \* position of the parser: "loop", "eos", "done"
    \* ---- ContextAnalyzer and Compiler (pkg/semantics.go, pkg/ir.go) ----
    prog,      \* the expressions the SyntacticAnalyzer delivers before EOS
    src,       \* number of expressions already pulled from the parser
    cache,     \* ContextAnalyzer.cache
    live,      \* ContextAnalyzer.live
    started,   \* ContextAnalyzer.started
    index,     \* ContextAnalyzer.index
    global,    \* the global SymbolTable: [ent, errs]
    ast,       \* the AST built by Do: [stmts, errs]
    ann,       \* ResolvedType / ResolvedTypes stored on the nodes, by node path
    nextAddr,  \* next fresh address for an allocated CompileError
    apanic,    \* "" or the run-time panic raised inside the analyzer
    pc,        \* position of Compile
    ret,       \* what Compile returned: [errs, err]
    first,     \* the AST and annotations an earlier run of Do left: [ran, ast, ann]
    \* ---- LLVM lowering (pkg/ir.go) ----
    values,    \* LLVMIRBuilder.values, the names bound in the value environment
    lpos,      \* number of AST statements already visited by LLVMGenerator.Do
    lpanic,    \* "" or the panic raised during lowering
    backend,   \* TRUE once Compiler.build has been invoked
    mod,       \* the functions of the IR module built so far: [name, blocks]
    \* ---- Type.Equals ----
    ta, tb,    \* the two types under comparison
    teq,       \* "" before the comparison, then the results of both directions
    \* ---- Lexer ----
    input,     \* the runes of the stream the Lexer reads
    rd,        \* position of the next rune the reader delivers
    lstate,    \* the lexerState Lexer.Do runs next ("nil" once its loop ended)
    chan,      \* Lexer.output, the tokens buffered in the channel
    chanClosed,\* TRUE once Lexer.Do has closed the channel
    got,       \* the tokens a consumer obtained with Lexer.Get()
    pos,       \* Lexer.pos
    tokStart,  \* Lexer.start
    locs,      \* the Loc of every token sent, in order (NoLoc for a nil Loc)
    \* ---- Compiler.build (pkg/ir.go) ----
    target,    \* c.target.OS
    irLeft,    \* reads of the pipe that the pending w.Write still needs
    wr,        \* the task writing the IR: "writing", then "closed"
    cmd,       \* the backend command: "new", "startFailed", "running", "exited0", "exited1"
    copier,    \* the copy from cmd.Stdin to the backend: "none", "copying", "done"
    group,     \* what the two tasks of the errgroup returned: [write, run]
    built      \* what build returned: "waiting", "nil" or "err"

pvars == <<toks, mode, tpos, buf, stmts, output, closed, recv, ppc>>
avars == <<prog, src, cache, live, started, index, global, ast, ann, nextAddr,
           apanic, pc, ret, first>>
lvars == <<values, lpos, lpanic, backend, mod>>
tvars == <<ta, tb, teq>>
xvars == <<input, rd, lstate, chan, chanClosed, got, pos, tokStart, locs>>
bvars == <<target, irLeft, wr, cmd, copier, group, built>>
vars == <<pvars, avars, lvars, tvars, xvars, bvars>>

(***************************************************************************)
(* Bounds of the model.                                                    *)
(***************************************************************************)
\* longest run of valid tokens before the sentinel
MaxToks == 3
\* statements after which the model stops following a parser loop
MaxStmts == 4
\* longest function body among the generated programs
MaxBody == 3
\* longest argument / return list of a generated FuncType
MaxSig == 2

\* capacity of Parser.output
ChanCap == 2

(***************************************************************************)
(* Tokens (Token, TokenType).                                              *)
(***************************************************************************)
Tok(typ, val) == [typ |-> typ, val |-> val]
NoTok == Tok("None", "")

isValid(t) == t.typ # "EOF" /\ t.typ # "Error"
isComment(t) == t.typ = "LineComment"

(***************************************************************************)
(* Expressions (Expr).  One record shape for every node:                   *)
(*   k     node kind                                                       *)
(*   v     Name / Operation / literal Value / BadExpr.Error                *)
(*   x     LiteralExpr.Typ, or the text formatted into a BadExpr message   *)
(*   kids  operands, arguments, declared value, function body, condition   *)
(*   thn, els  IfExpr.Consequent and IfExpr.Else                           *)
(***************************************************************************)
Node(k, v, x, kids) == [k |-> k, v |-> v, x |-> x, kids |-> kids,
                        thn |-> <<>>, els |-> <<>>]
BadExpr(msg, text) == Node("BadExpr", msg, text, <<>>)
FuncDecl(name, body) == Node("FuncDecl", name, "", body)
VariableDecl(name, value) == Node("VariableDecl", name, "", <<value>>)
FuncCall(name, args) == Node("FuncCall", name, "", args)
Identifier(name) == Node("Identifier", name, "", <<>>)
BinaryExpr(op, op1, op2) == Node("BinaryExpr", op, "", <<op1, op2>>)
BooleanExpr(op, op1, op2) == Node("BooleanExpr", op, "", <<op1, op2>>)
UnaryExpr(op, operand) == Node("UnaryExpr", op, "", <<operand>>)
LiteralExpr(typ, value) == Node("LiteralExpr", value, typ, <<>>)
IfExpr(cond, consequent, else) ==
    [k |-> "IfExpr", v |-> "", x |-> "", kids |-> <<cond>>,
     thn |-> consequent, els |-> else]
EOS == Node("EOS", "", "", <<>>)

(***************************************************************************)
(* Parser.  The parser's own state is p = [tpos, buf]; every parsing       *)
(* method returns the state it leaves together with its result.            *)
(***************************************************************************)
RECURSIVE next(_)
RECURSIVE parse(_, _, _)

\* tokenizer.Get(): the next token of the stream; EOF once it is exhausted
tokenizerGet(p) ==
    IF p.tpos < Len(toks)
    THEN [p |-> [p EXCEPT !.tpos = p.tpos + 1], tok |-> toks[p.tpos + 1]]
    ELSE [p |-> p, tok |-> Tok("EOF", "")]

next(p) ==
    IF p.buf # NoTok
    THEN IF ~isValid(p.buf)
         THEN [p |-> p, tok |-> p.buf]
         ELSE [p |-> [p EXCEPT !.buf = NoTok], tok |-> p.buf]
    ELSE LET g == tokenizerGet(p)
             q == IF ~isValid(g.tok) THEN [g.p EXCEPT !.buf = g.tok] ELSE g.p
         IN  IF isComment(g.tok) THEN next(q) ELSE [p |-> q, tok |-> g.tok]

peek(p) ==
    IF p.buf = NoTok
    THEN LET n == next(p) IN [p |-> [n.p EXCEPT !.buf = n.tok], tok |-> n.tok]
    ELSE [p |-> p, tok |-> p.buf]

\* expect / consume: next() and whether the token has the type
consume(p, typ) == LET n == next(p) IN [p |-> n.p, ok |-> n.tok.typ = typ, tok |-> n.tok]
check(p, typ) == LET k == peek(p) IN [p |-> k.p, ok |-> k.tok.typ = typ]

\* the parsing methods; each is the arm of parse that bears its name
statement(p) == parse("statement", p, <<>>)
funcDecl(p) == parse("funcDecl", p, <<>>)
blockLoop(p, exprs) == parse("blockLoop", p, exprs)
blockStmt(p) == parse("blockStmt", p, <<>>)
expr(p) == parse("expr", p, <<>>)
varDeclExpr(p, id) == parse("varDeclExpr", p, id)
argLoop(p, args) == parse("argLoop", p, args)
funcCall(p, id) == parse("funcCall", p, id)
additiveLoop(p, lhs) == parse("additiveLoop", p, lhs)
additiveExpr(p) == parse("additiveExpr", p, <<>>)
multiplicativeLoop(p, lhs) == parse("multiplicativeLoop", p, lhs)
\* multiplicativeExpr without its operator loop
multiplicativeExprNoLoop(p) == parse("unaryExpr", p, <<>>)
multiplicativeExpr(p) == parse("multiplicativeExpr", p, <<>>)
unaryExpr(p) == parse("unaryExpr", p, <<>>)
primary(p) == parse("primary", p, <<>>)
parenthesisedExpression(p) == parse("parenthesisedExpression", p, <<>>)
identifier(p) == parse("identifier", p, <<>>)
literal(p) == parse("literal", p, <<>>)

\* the methods' bodies, selected by method name; arg is the method's argument
\* besides the parser, if it has one
parse(method, p, arg) ==
    CASE method = "statement" ->
          LET k == peek(p)
          IN  IF k.tok.typ = "Func" THEN funcDecl(k.p) ELSE expr(k.p)
      [] method = "funcDecl" ->
          LET start == next(p)
              name == consume(start.p, "Identifier")
          IN  IF ~name.ok
              THEN [p |-> name.p, e |-> BadExpr("expected function name", "")]
              ELSE LET o == consume(name.p, "OpenParen")
                   IN  IF ~o.ok
                       THEN [p |-> o.p, e |-> BadExpr("bad function declaration", "")]
                       ELSE LET c == consume(o.p, "CloseParen")
                            IN  IF ~c.ok
                                THEN [p |-> c.p,
                                      e |-> BadExpr("bad function declaration", "")]
                                ELSE LET b == blockStmt(c.p)
                                     IN  [p |-> b.p, e |-> FuncDecl(name.tok.val, b.es)]
      [] method = "blockLoop" ->
          LET exprs == arg IN
          LET k == peek(p)
          IN  IF isValid(k.tok) /\ k.tok.typ # "CloseCurly"
              THEN LET s == statement(k.p) IN blockLoop(s.p, Append(exprs, s.e))
              ELSE [p |-> k.p, es |-> exprs]
      [] method = "blockStmt" ->
          LET o == consume(p, "OpenCurly")
          IN  IF ~o.ok
              THEN [p |-> o.p, es |-> <<BadExpr("invalid block statement", "")>>]
              ELSE LET l == blockLoop(o.p, <<>>)
                       closer == next(l.p)
                   IN  CASE closer.tok.typ = "CloseCurly" -> [p |-> closer.p, es |-> l.es]
                         [] closer.tok.typ = "Error" ->
                              [p |-> closer.p,
                               es |-> Append(l.es, BadExpr("invalid block statement", ""))]
                         [] closer.tok.typ = "EOF" ->
                              [p |-> closer.p,
                               es |-> Append(l.es, BadExpr("unclosed block statement", ""))]
                         [] OTHER ->
                              [p |-> closer.p,
                               es |-> Append(l.es,
                                        BadExpr("unexpected token in block statement", ""))]
      [] method = "expr" ->
          LET a == additiveExpr(p)
          IN  IF a.e.k = "Identifier"
              THEN LET k == peek(a.p)
                   IN  CASE k.tok.typ = "Declaration" -> varDeclExpr(k.p, a.e)
                         [] k.tok.typ = "OpenParen" -> funcCall(k.p, a.e)
                         [] OTHER -> [p |-> k.p, e |-> a.e]
              ELSE a
      [] method = "varDeclExpr" ->
          LET id == arg IN
          LET k == peek(p)
          IN  IF k.tok.typ # "Declaration"
              THEN [p |-> k.p, e |-> id]
              ELSE LET n == next(k.p)
                       v == expr(n.p)
                   IN  [p |-> v.p, e |-> VariableDecl(id.v, v.e)]
      \* the argument loop of funcCall
      [] method = "argLoop" ->
          LET args == arg IN
          LET k == peek(p)
          IN  IF isValid(k.tok) /\ k.tok.typ # "CloseParen"
              THEN LET a == expr(k.p)
                       c == check(a.p, "Comma")
                   IN  IF ~c.ok
                       THEN [p |-> c.p, es |-> Append(args, a.e)]
                       ELSE argLoop(next(c.p).p, Append(args, a.e))
              ELSE [p |-> k.p, es |-> args]
      \* both errorf results of funcCall are dropped by the code
      [] method = "funcCall" ->
          LET id == arg IN
          LET o == consume(p, "OpenParen")
              l == argLoop(o.p, <<>>)
              c == consume(l.p, "CloseParen")
          IN  [p |-> c.p, e |-> FuncCall(id.v, l.es)]
      [] method = "additiveLoop" ->
          LET lhs == arg IN
          LET k == peek(p)
          IN  IF k.tok.typ = "Plus" \/ k.tok.typ = "Minus"
              THEN LET n == next(k.p)
                       rhs == additiveExpr(n.p)
                   IN  additiveLoop(rhs.p, BinaryExpr(k.tok.val, lhs, rhs.e))
              ELSE [p |-> k.p, e |-> lhs]
      [] method = "additiveExpr" ->
          LET l == multiplicativeExpr(p) IN additiveLoop(l.p, l.e)
      [] method = "multiplicativeLoop" ->
          LET lhs == arg IN
          LET k == peek(p)
          IN  IF k.tok.typ = "Multi" \/ k.tok.typ = "Div"
              THEN LET n == next(k.p)
                       rhs == multiplicativeExpr(n.p)
                   IN  multiplicativeLoop(rhs.p, BinaryExpr(k.tok.val, lhs, rhs.e))
              ELSE [p |-> k.p, e |-> lhs]
      [] method = "multiplicativeExpr" ->
          LET l == unaryExpr(p) IN multiplicativeLoop(l.p, l.e)
      [] method = "unaryExpr" ->
          LET c == check(p, "Minus")
          IN  IF c.ok
              THEN LET n == next(c.p)
                       o == primary(n.p)
                   IN  [p |-> o.p, e |-> UnaryExpr("-", o.e)]
              ELSE primary(c.p)
      [] method = "primary" ->
          LET k == peek(p)
          IN  CASE k.tok.typ = "OpenParen" -> parenthesisedExpression(k.p)
                [] k.tok.typ = "Identifier" -> identifier(k.p)
                [] OTHER -> literal(k.p)
      [] method = "parenthesisedExpression" ->
          LET o == next(p)
          IN  IF o.tok.typ # "OpenParen"
              THEN [p |-> o.p, e |-> BadExpr("expected opening parenthesis", "")]
              ELSE LET x == expr(o.p)
                       c == next(x.p)
                   IN  IF c.tok.typ # "CloseParen"
                       THEN [p |-> c.p, e |-> BadExpr("expected closing parenthesis", "")]
                       ELSE [p |-> c.p, e |-> x.e]
      [] method = "identifier" ->
          LET n == next(p)
          IN  IF n.tok.typ # "Identifier"
              THEN [p |-> n.p, e |-> BadExpr("expected an varDeclExpr", "")]
              ELSE [p |-> n.p, e |-> Identifier(n.tok.val)]
      [] method = "literal" ->
          LET k == peek(p)
              n == next(k.p)
          IN  CASE k.tok.typ = "Number" -> [p |-> n.p, e |-> LiteralExpr("Number", n.tok.val)]
                [] k.tok.typ = "String" -> [p |-> n.p, e |-> LiteralExpr("String", n.tok.val)]
                [] OTHER -> [p |-> n.p, e |-> BadExpr("invalid symbol", k.tok.val)]

(***************************************************************************)
(* Token streams fed to the parser.  A stream is a run of valid tokens     *)
(* followed by the tokenizer's terminal sentinel: EOF, or the Error token  *)
(* of a failed lex (its Value is the lexer's message).                     *)
(***************************************************************************)
TokNumber == Tok("Number", "1")
TokString == Tok("String", "text")
TokIdentifier == Tok("Identifier", "x")
TokFunc == Tok("Func", "func")
TokPlus == Tok("Plus", "+")
TokMinus == Tok("Minus", "-")
TokMulti == Tok("Multi", "*")
TokDeclaration == Tok("Declaration", ":=")
TokLineComment == Tok("LineComment", "c")
TokOpenParentheses == Tok("OpenParen", "(")
TokCloseParentheses == Tok("CloseParen", ")")
TokOpenCurly == Tok("OpenCurly", "{")
TokCloseCurly == Tok("CloseCurly", "}")
TokComma == Tok("Comma", ",")
TokEOF == Tok("EOF", "")
TokError == Tok("Error", "unclosed string: unclosed")

ValidToks == {TokNumber, TokString, TokIdentifier, TokFunc, TokPlus, TokMinus,
              TokMulti, TokDeclaration, TokLineComment, TokOpenParentheses,
              TokCloseParentheses, TokOpenCurly, TokCloseCurly, TokComma}
Sentinels == {TokEOF, TokError}

\* the seed programs of the language's documentation, as token runs
SeedRuns ==
    { <<TokFunc, Tok("Identifier", "main"), TokOpenParentheses, TokCloseParentheses,
        TokOpenCurly, TokCloseCurly>>,
      <<TokIdentifier, TokDeclaration, TokNumber, TokPlus, TokNumber>>,
      <<TokIdentifier, TokDeclaration, TokNumber, TokPlus, TokString>>,
      <<Tok("Identifier", "foo"), TokOpenParentheses, TokCloseParentheses>>,
      <<TokNumber, TokPlus, Tok("Number", "2"), TokMulti, Tok("Number", "3")>>,
      <<TokOpenParentheses, TokNumber, TokPlus, Tok("Number", "3"),
        TokCloseParentheses, TokMulti, Tok("Number", "2")>>,
      <<TokFunc, Tok("Identifier", "main"), TokOpenParentheses, TokCloseParentheses,
        TokOpenCurly, TokIdentifier, TokDeclaration, TokNumber>> }

Runs == SeedRuns \cup UNION {[1..n -> ValidToks] : n \in 0..MaxToks}
Streams == {Append(r, s) : r \in Runs, s \in Sentinels}

InitParser ==
    /\ toks \in Streams
    /\ mode \in {"Run", "Do"}
    /\ tpos = 0
    /\ buf = NoTok
    /\ stmts = <<>>
    /\ output = <<>>
    /\ closed = FALSE
    /\ recv = <<>>
    /\ ppc = "loop"

\* the parser state the methods thread
P == [tpos |-> tpos, buf |-> buf]

(***************************************************************************)
(* Parser.Run: one iteration of `for p.peek().Typ != TokenEOF`.            *)
(***************************************************************************)
RunStatement ==
    /\ mode = "Run" /\ ppc = "loop"
    /\ Len(stmts) < MaxStmts
    /\ LET k == peek(P)
       IN  /\ k.tok.typ # "EOF"
           /\ LET s == statement(k.p)
              IN  /\ stmts' = Append(stmts, s.e)
                  /\ tpos' = s.p.tpos
                  /\ buf' = s.p.buf
    /\ UNCHANGED <<toks, mode, output, closed, recv, ppc>>
    /\ UNCHANGED <<avars, lvars, tvars, xvars, bvars>>

RunReturn ==
    /\ mode = "Run" /\ ppc = "loop"
    /\ LET k == peek(P)
       IN  /\ k.tok.typ = "EOF"
           /\ tpos' = k.p.tpos
           /\ buf' = k.p.buf
    /\ ppc' = "done"
    /\ UNCHANGED <<toks, mode, stmts, output, closed, recv>>
    /\ UNCHANGED <<avars, lvars, tvars, xvars, bvars>>

(***************************************************************************)
(* Parser.Do: the same loop, each statement sent on the channel; then the  *)
(* end-of-stream marker is sent and the channel closed.                    *)
(***************************************************************************)
DoStatement ==
    /\ mode = "Do" /\ ppc = "loop"
    /\ Len(output) < ChanCap
    /\ LET k == peek(P)
       IN  /\ k.tok.typ # "EOF"
           /\ LET s == statement(k.p)
              IN  /\ output' = Append(output, s.e)
                  /\ tpos' = s.p.tpos
                  /\ buf' = s.p.buf
    /\ UNCHANGED <<toks, mode, stmts, closed, recv, ppc>>
    /\ UNCHANGED <<avars, lvars, tvars, xvars, bvars>>

DoEOS ==
    /\ mode = "Do" /\ ppc = "loop"
    /\ Len(output) < ChanCap
    /\ LET k == peek(P)
       IN  /\ k.tok.typ = "EOF"
           /\ tpos' = k.p.tpos
           /\ buf' = k.p.buf
    /\ output' = Append(output, EOS)
    /\ ppc' = "eos"
    /\ UNCHANGED <<toks, mode, stmts, closed, recv>>
    /\ UNCHANGED <<avars, lvars, tvars, xvars, bvars>>

DoClose ==
    /\ mode = "Do" /\ ppc = "eos"
    /\ closed' = TRUE
    /\ ppc' = "done"
    /\ UNCHANGED <<toks, mode, tpos, buf, stmts, output, recv>>
    /\ UNCHANGED <<avars, lvars, tvars, xvars, bvars>>

\* Parser.Get by the consumer, which stops pulling at the end-of-stream marker
ParserGet ==
    /\ mode = "Do"
    /\ output # <<>>
    /\ Len(recv) < MaxStmts
    /\ IF recv = <<>> THEN TRUE ELSE recv[Len(recv)] # EOS
    /\ recv' = Append(recv, Head(output))
    /\ output' = Tail(output)
    /\ UNCHANGED <<toks, mode, tpos, buf, stmts, closed, ppc>>
    /\ UNCHANGED <<avars, lvars, tvars, xvars, bvars>>

ParseNext ==
    \/ RunStatement
    \/ RunReturn
    \/ DoStatement
    \/ DoEOS
    \/ DoClose
    \/ ParserGet

(***************************************************************************)
(* The parts of the state a specification does not exercise stay as        *)
(* constructed.                                                            *)
(***************************************************************************)
IdleParser ==
    /\ toks = <<TokEOF>> /\ mode = "Run" /\ tpos = 0 /\ buf = NoTok
    /\ stmts = <<>> /\ output = <<>> /\ closed = FALSE /\ recv = <<>>
    /\ ppc = "loop"

IdleTypes == ta = "" /\ tb = "" /\ teq = [done |-> FALSE, ab |-> FALSE, ba |-> FALSE]

(***************************************************************************)
(* Types (Type).  One record shape for every type:                         *)
(*   BasicType{Typ}, TypeErr{Reason}: n is the name / reason               *)
(*   ArgumentType{Name, Type}: n is the name, args = <<Type>>              *)
(*   FuncType{Args, Returns}: args and rets                                *)
(*   NilBasicType: a Type interface that holds a nil *BasicType            *)
(***************************************************************************)
Ty(t, n, args, rets) == [t |-> t, n |-> n, args |-> args, rets |-> rets]
BasicType(typ) == Ty("BasicType", typ, <<>>, <<>>)
TypeErr(reason) == Ty("TypeErr", reason, <<>>, <<>>)
AnyType == Ty("AnyType", "", <<>>, <<>>)
ArgumentType(name, type) == Ty("ArgumentType", name, <<type>>, <<>>)
FuncType(args, returns) == Ty("FuncType", "", args, returns)
NilBasicType == Ty("NilBasicType", "", <<>>, <<>>)
NoType == Ty("", "", <<>>, <<>>)

TypeErrUndefined == "undefined"
TypeErrBadExpression == "bad expr"
TypeErrIncompatible == "incompatible"
TypeErrBadOp == "bad op"

RECURSIVE Equals(_, _)
\* t.Equals(t2), dispatched on the dynamic type of the receiver t
Equals(t, t2) ==
    CASE t.t = "TypeErr" -> FALSE
      [] t.t = "AnyType" -> t2.t # "TypeErr"
      [] t.t = "BasicType" -> t2.t = "BasicType" /\ t.n = t2.n
      [] t.t = "ArgumentType" ->
            /\ t2.t = "ArgumentType"
            /\ t.n = t2.n
            /\ Equals(t.args[1], t2.args[1])
      [] t.t = "FuncType" ->
            /\ t2.t = "FuncType"
            /\ \A i \in 1..Len(t.args) :
                  i <= Len(t2.args) /\ Equals(t.args[i], t2.args[i])
            /\ \A i \in 1..Len(t.rets) :
                  i <= Len(t2.rets) /\ Equals(t.rets[i], t2.rets[i])
      [] OTHER -> FALSE

\* BasicType.Equals dereferences a nil *BasicType: the receiver when its
\* argument asserts to *BasicType, or the asserted argument itself
EqualsPanics(t, t2) ==
    \/ t.t = "NilBasicType" /\ t2.t \in {"BasicType", "NilBasicType"}
    \/ t.t = "BasicType" /\ t2.t = "NilBasicType"

isErrorType(t) == t.t = "TypeErr"

isOpDefined(t, op) ==
    IF t.t = "FuncType" THEN FALSE
    ELSE IF t.t = "BasicType" /\ t.n = "string" /\ op # "+" THEN FALSE
    ELSE TRUE

(***************************************************************************)
(* CompileError values.  Every error is allocated where it is recorded and *)
(* the lists hold the pointers: addr is the allocation, the other fields   *)
(* are what the pointer points to.  site is the node the error's Loc was   *)
(* taken from (e.GetLocation()).                                           *)
(***************************************************************************)
CompileError(addr, kind, site, name, t1, t2) ==
    [addr |-> addr, kind |-> kind, site |-> site, name |-> name,
     t1 |-> t1, t2 |-> t2]

\* err == err2 on two CompileError interface values holding pointers
SamePointer(e1, e2) == e1.addr = e2.addr

\* equality of what two errors point to
StructurallyEqual(e1, e2) ==
    /\ e1.kind = e2.kind /\ e1.site = e2.site /\ e1.name = e2.name
    /\ e1.t1 = e2.t1 /\ e1.t2 = e2.t2

(***************************************************************************)
(* Slices of CompileError.  A slice is a header [arr, len, cap] over a     *)
(* backing array of the heap; arr = 0 is the nil slice.  An unused slot of *)
(* an array holds NoError.                                                 *)
(***************************************************************************)
NoError == CompileError(0, "", <<>>, "", NoType, NoType)
NilSlice == [arr |-> 0, len |-> 0, cap |-> 0]

\* capacity chosen by append when one element no longer fits
growslice(cap) == IF cap = 0 THEN 1 ELSE cap + cap

\* the elements a slice header denotes
Elems(heap, s) == [i \in 1..s.len |-> heap[s.arr][i]]

\* append(s, e): in place when the capacity allows, else into a new array
append(m, s, e) ==
    IF s.len < s.cap
    THEN [m |-> [m EXCEPT !.heap[s.arr][s.len + 1] = e],
          s |-> [s EXCEPT !.len = s.len + 1]]
    ELSE LET newcap == growslice(s.cap)
             arr == [i \in 1..newcap |->
                        IF i <= s.len THEN m.heap[s.arr][i]
                        ELSE IF i = s.len + 1 THEN e ELSE NoError]
         IN  [m |-> [m EXCEPT !.heap = Append(m.heap, arr)],
              s |-> [arr |-> Len(m.heap) + 1, len |-> s.len + 1, cap |-> newcap]]

\* make([]CompileError, len(errs)) followed by copy
makeCopy(m, errs) ==
    IF errs = <<>>
    THEN [m |-> m, s |-> NilSlice]
    ELSE [m |-> [m EXCEPT !.heap = Append(m.heap, errs)],
          s |-> [arr |-> Len(m.heap) + 1, len |-> Len(errs), cap |-> Len(errs)]]

(***************************************************************************)
(* SymbolTable.  During the analysis of one statement the machine state m  *)
(* holds the Entries map every copy of the table shares (a Go map is a     *)
(* reference), the heap of backing arrays, the annotations written on the  *)
(* nodes, the next free address and the panic raised, if any.  A table     *)
(* value is then just its Errors slice header s.                           *)
(***************************************************************************)
Machine(ent, heap, an, addr) ==
    [ent |-> ent, heap |-> heap, ann |-> an, addr |-> addr, panic |-> ""]

\* SymbolTable.AddError of a freshly allocated error
AddError(m, s, kind, site, name, t1, t2) ==
    append([m EXCEPT !.addr = m.addr + 1], s,
           CompileError(m.addr, kind, site, name, t1, t2))

\* SymbolTable.Add
Add(m, name, typ) == [m EXCEPT !.ent = (name :> typ) @@ m.ent]

\* SymbolTable.Get(name) # nil
Has(m, name) == name \in DOMAIN m.ent

RECURSIVE importErrors(_, _, _, _)
\* the second loop of SymbolTable.Import: range over t2.Errors reads element
\* i of t2's backing array when iteration i starts
importErrors(m, s, s2, i) ==
    IF i > s2.len THEN [m |-> m, s |-> s]
    ELSE LET a == append(m, s, m.heap[s2.arr][i])
         IN  importErrors(a.m, a.s, s2, i + 1)

\* SymbolTable.Import(t2); t2.Entries is the receiver's own map here
Import(m, s, s2) == importErrors(m, s, s2, 1)

(***************************************************************************)
(* ContextAnalyzer.resolve(stab, expr): stab is a pointer, so the table's  *)
(* slice header s is updated in place.  Returns [m, s, t].  Once a panic   *)
(* has been raised nothing more is executed.                               *)
(***************************************************************************)
RECURSIVE resolve(_, _, _, _)
resolve(m, s, e, site) ==
    IF m.panic # "" THEN [m |-> m, s |-> s, t |-> NoType]
    ELSE CASE e.k = "BadExpr" ->
                LET a == AddError(m, s, "BadExprError", site, e.v, NoType, NoType)
                IN  [m |-> a.m, s |-> a.s, t |-> TypeErr(TypeErrBadExpression)]
           [] e.k = "Identifier" ->
                IF Has(m, e.v)
                THEN [m |-> m, s |-> s, t |-> m.ent[e.v]]
                ELSE LET a == AddError(m, s, "UndefinedError", site, e.v,
                                       NoType, NoType)
                     IN  [m |-> a.m, s |-> a.s, t |-> TypeErr(TypeErrUndefined)]
           [] e.k = "BinaryExpr" ->
                LET r1 == resolve(m, s, e.kids[1], Append(site, 1))
                    r2 == resolve(r1.m, r1.s, e.kids[2], Append(site, 2))
                    t1 == r1.t
                    t2 == r2.t
                IN  IF r2.m.panic # "" THEN r2
                    ELSE IF isErrorType(t1) THEN [r2 EXCEPT !.t = t1]
                    ELSE IF isErrorType(t2) THEN r2
                    ELSE IF EqualsPanics(t1, t2)
                         THEN [m |-> [r2.m EXCEPT !.panic = "nil pointer dereference"],
                               s |-> r2.s, t |-> NoType]
                    ELSE IF ~Equals(t1, t2)
                         THEN LET a == AddError(r2.m, r2.s, "IncompatibleTypesError",
                                                site, "", t1, t2)
                              IN  [m |-> a.m, s |-> a.s,
                                   t |-> TypeErr(TypeErrIncompatible)]
                    ELSE IF ~isOpDefined(t1, e.v)
                         THEN LET a == AddError(r2.m, r2.s, "UndefinedOperationError",
                                                site, e.v, t1, NoType)
                              IN  [m |-> a.m, s |-> a.s, t |-> TypeErr(TypeErrBadOp)]
                    ELSE [r2 EXCEPT !.t = t1]
           [] e.k = "UnaryExpr" ->
                \* t, isBasicType := resolve(...).(*BasicType): a nil *BasicType
                \* asserts too and t.Typ then dereferences it; when the
                \* assertion fails t is the nil *BasicType that is returned
                LET r == resolve(m, s, e.kids[1], Append(site, 1))
                IN  IF r.m.panic # "" THEN r
                    ELSE IF r.t.t = "NilBasicType"
                         THEN [m |-> [r.m EXCEPT !.panic = "nil pointer dereference"],
                               s |-> r.s, t |-> NoType]
                    ELSE IF r.t.t = "BasicType" /\ r.t.n # "int"
                         THEN LET a == AddError(r.m, r.s, "UndefinedUnitaryError",
                                                site, e.v, r.t, NoType)
                              IN  [m |-> a.m, s |-> a.s, t |-> TypeErr(TypeErrBadOp)]
                    ELSE IF r.t.t = "BasicType" THEN r
                    ELSE [r EXCEPT !.t = NilBasicType]
           [] e.k = "LiteralExpr" ->
                CASE e.x = "String" -> [m |-> m, s |-> s, t |-> BasicType("string")]
                  [] e.x = "Number" -> [m |-> m, s |-> s, t |-> BasicType("int")]
                  [] OTHER -> [m |-> m, s |-> s, t |-> TypeErr("unimplemented")]
           [] OTHER -> [m |-> m, s |-> s, t |-> TypeErr("unknown")]

\* addFunction
addFunction(m, e) == Add(m, e.v, FuncType(<<>>, <<>>))

\* e.ResolvedType = t, and e.ResolvedTypes = append(e.ResolvedTypes, t)
SetResolvedType(m, site, t) == [m EXCEPT !.ann = (site :> <<t>>) @@ m.ann]
ResolvedTypesOf(an, site) == IF site \in DOMAIN an THEN an[site] ELSE <<>>
AppendResolvedType(m, site, t) ==
    [m EXCEPT !.ann = (site :> Append(ResolvedTypesOf(m.ann, site), t)) @@ m.ann]

(***************************************************************************)
(* ContextAnalyzer.analyze(stab, expr): stab is passed and returned by     *)
(* value, so the callee works on its own copy of the slice header s and    *)
(* returns it.  Returns [m, s].                                            *)
(***************************************************************************)
RECURSIVE analyze(_, _, _, _), analyzeBody(_, _, _, _, _), resolveArgs(_, _, _, _, _)

\* the loop over e.Body in the FuncDecl case
analyzeBody(m, s, e, site, j) ==
    IF j > Len(e.kids) \/ m.panic # "" THEN [m |-> m, s |-> s]
    ELSE LET c == analyze(m, s, e.kids[j], Append(site, j))
             i == Import(c.m, s, c.s)
         IN  IF c.m.panic # "" THEN [m |-> c.m, s |-> s]
             ELSE analyzeBody(i.m, i.s, e, site, j + 1)

\* the loop over e.Args in the FuncCall case
resolveArgs(m, s, e, site, j) ==
    IF j > Len(e.kids) \/ m.panic # "" THEN [m |-> m, s |-> s]
    ELSE LET r == resolve(m, s, e.kids[j], Append(site, j))
         IN  IF r.m.panic # "" THEN [m |-> r.m, s |-> r.s]
             ELSE resolveArgs(AppendResolvedType(r.m, site, r.t), r.s, e, site, j + 1)

analyze(m, s, e, site) ==
    IF m.panic # "" THEN [m |-> m, s |-> s]
    ELSE CASE e.k = "BadExpr" ->
                AddError(m, s, "BadExprError", site, e.v, NoType, NoType)
           [] e.k = "FuncDecl" -> analyzeBody(addFunction(m, e), s, e, site, 1)
           [] e.k = "VariableDecl" ->
                LET r == resolve(m, s, e.kids[1], Append(site, 1))
                IN  IF r.m.panic # "" THEN [m |-> r.m, s |-> r.s]
                    ELSE [m |-> SetResolvedType(Add(r.m, e.v, r.t), site, r.t),
                          s |-> r.s]
           [] e.k = "FuncCall" ->
                IF ~Has(m, e.v)
                THEN AddError(m, s, "UndefinedError", site, e.v, NoType, NoType)
                ELSE resolveArgs(m, s, e, site, 1)
           [] e.k = "Identifier" ->
                IF ~Has(m, e.v)
                THEN AddError(m, s, "UndefinedError", site, e.v, NoType, NoType)
                ELSE [m |-> m, s |-> s]
           [] e.k \in {"BinaryExpr", "UnaryExpr"} ->
                LET r == resolve(m, s, e, site) IN [m |-> r.m, s |-> r.s]
           [] OTHER -> [m |-> m, s |-> s]

(***************************************************************************)
(* LLVM lowering (LLVMIRBuilder).  The builder state L holds the value     *)
(* environment b.values (name -> value), the number of blocks allocated    *)
(* and the panic raised, if any.  A value is a function, a constant, an    *)
(* instruction's result, or nil (what functionCall returns).               *)
(***************************************************************************)
Value(k, id) == [k |-> k, id |-> id]
NilValue == Value("nil", "")
Inst(op, name) == [op |-> op, name |-> name]
Block(id, insts, term, targets) ==
    [id |-> id, insts |-> insts, term |-> term, targets |-> targets]

\* ValueLookup.Set
ValueLookupSet(L, id, val) == [L EXCEPT !.vals = (id :> val) @@ L.vals]

\* the largest value strconv.ParseInt(text, 10, 32) accepts
MaxInt32 == 2147483647

\* the decimal digits of the numerals that occur in the programs
DigitsOf ==
    ("0" :> <<0>>) @@ ("1" :> <<1>>) @@ ("2" :> <<2>>) @@ ("3" :> <<3>>)
    @@ ("007" :> <<0, 0, 7>>)
    @@ ("2147483647" :> <<2, 1, 4, 7, 4, 8, 3, 6, 4, 7>>)
    @@ ("2147483648" :> <<2, 1, 4, 7, 4, 8, 3, 6, 4, 8>>)
    @@ ("99999999999" :> <<9, 9, 9, 9, 9, 9, 9, 9, 9, 9, 9>>)

\* strconv.ParseInt(text, 10, 32): the value of the digits, -1 for the range
\* error of a value above MaxInt32 (the numerals carry no sign)
RECURSIVE accumulate(_, _)
accumulate(ds, n) ==
    IF ds = <<>> THEN n
    ELSE IF n > (MaxInt32 - Head(ds)) \div 10 THEN -1
    ELSE accumulate(Tail(ds), 10 * n + Head(ds))
ParseInt(text) == accumulate(DigitsOf[text], 0)
ParsesAsInt32(text) == ParseInt(text) >= 0

RECURSIVE lower(_, _, _, _)

\* ValueLookup.Get inside recursiveLoad / functionCall: panics when unbound
ValueLookupGet(L, id) ==
    IF id \in DOMAIN L.vals
    THEN [L |-> L, v |-> L.vals[id]]
    ELSE [L |-> [L EXCEPT !.panic = "undefined identifier"], v |-> NilValue]

\* loadLiteral, loadLiteralInt
loadLiteral(L, e) ==
    CASE e.x = "String" ->
            [L |-> [L EXCEPT !.panic = "not implemented"], v |-> NilValue, ins |-> <<>>]
      [] e.x = "Number" ->
            IF ParsesAsInt32(e.v)
            THEN [L |-> L, v |-> Value("const", ToString(ParseInt(e.v))), ins |-> <<>>]
            ELSE [L |-> [L EXCEPT !.panic = "strconv.ParseInt"],
                  v |-> NilValue, ins |-> <<>>]
      [] OTHER -> [L |-> [L EXCEPT !.panic = "unknown type"], v |-> NilValue, ins |-> <<>>]

isBlockExpr(e) == e.k = "IfExpr"

\* the lowering methods of LLVMIRBuilder; each is the arm of lower that bears
\* its name
binaryExpression(L, e, ops) == lower("binaryExpression", L, e, <<ops>>)
unaryExpression(L, e) == lower("unaryExpression", L, e, <<>>)
loadArgs(L, e, j, ins) == lower("loadArgs", L, e, <<j, ins>>)
functionCall(L, e) == lower("functionCall", L, e, <<>>)
variableDecl(L, e) == lower("variableDecl", L, e, <<>>)
recursiveLoad(L, e) == lower("recursiveLoad", L, e, <<>>)
instructions(L, e) == lower("instructions", L, e, <<>>)
branchInstructions(L, es, j, ins) == lower("branchInstructions", L, es, <<j, ins>>)
\* ifBranch without trueBlock.NewBr(exit)
ifBranchOpenThen(L, e, exit) ==
    LET r == lower("ifBranch", L, e, <<exit>>)
    IN  [r EXCEPT !.blocks[2].term = ""]
ifBranch(L, e, exit) == lower("ifBranch", L, e, <<exit>>)
blocks(L, e, exit) == lower("blocks", L, e, <<exit>>)
functionBody(L, e, j, bs) == lower("functionBody", L, e, <<j, bs>>)

\* the methods' bodies, selected by method name; arg holds the arguments
\* besides the builder and the expression
lower(method, L, e, arg) ==
      \* binaryExpression, booleanExpression
    CASE method = "binaryExpression" ->
          LET ops == arg[1] IN
          LET l1 == recursiveLoad(L, e.kids[1])
              l2 == recursiveLoad(l1.L, e.kids[2])
          IN  IF l2.L.panic # "" THEN [L |-> l2.L, v |-> NilValue, ins |-> <<>>]
              ELSE IF e.v \notin ops
                   THEN [L |-> [l2.L EXCEPT !.panic = "unexpected binary op"],
                         v |-> NilValue, ins |-> <<>>]
              ELSE [L |-> l2.L, v |-> Value("inst", e.v),
                    ins |-> Append(l1.ins \o l2.ins, Inst(e.v, ""))]
      [] method = "unaryExpression" ->
          LET l == recursiveLoad(L, e.kids[1])
          IN  IF l.L.panic # "" THEN [L |-> l.L, v |-> NilValue, ins |-> <<>>]
              ELSE IF e.v # "-"
                   THEN [L |-> [l.L EXCEPT !.panic = "unexpected unary op"],
                         v |-> NilValue, ins |-> <<>>]
              ELSE [L |-> l.L, v |-> Value("inst", "neg"),
                    ins |-> Append(l.ins, Inst("mul", ""))]
      \* the loop over expr.Args in functionCall
      [] method = "loadArgs" ->
          LET j == arg[1]
              ins == arg[2] IN
          IF j > Len(e.kids) \/ L.panic # "" THEN [L |-> L, ins |-> ins]
          ELSE LET a == recursiveLoad(L, e.kids[j])
               IN  loadArgs(a.L, e, j + 1, ins \o a.ins)
      [] method = "functionCall" ->
          LET a == loadArgs(L, e, 1, <<>>)
              g == ValueLookupGet(a.L, e.v)
          IN  IF a.L.panic # "" THEN [L |-> a.L, v |-> NilValue, ins |-> <<>>]
              ELSE IF g.L.panic # "" THEN [L |-> g.L, v |-> NilValue, ins |-> <<>>]
              ELSE [L |-> g.L, v |-> NilValue, ins |-> Append(a.ins, Inst("call", e.v))]
      [] method = "variableDecl" ->
          LET l == recursiveLoad(L, e.kids[1])
          IN  IF l.L.panic # "" THEN l
              ELSE [L |-> ValueLookupSet(l.L, e.v, l.v), v |-> l.v, ins |-> l.ins]
      [] method = "recursiveLoad" ->
          IF L.panic # "" THEN [L |-> L, v |-> NilValue, ins |-> <<>>]
          ELSE CASE e.k = "LiteralExpr" -> loadLiteral(L, e)
                 [] e.k = "BinaryExpr" -> binaryExpression(L, e, {"+", "-", "*", "/"})
                 [] e.k = "BooleanExpr" -> binaryExpression(L, e, {"=="})
                 [] e.k = "UnaryExpr" -> unaryExpression(L, e)
                 [] e.k = "Identifier" ->
                      LET g == ValueLookupGet(L, e.v) IN [L |-> g.L, v |-> g.v, ins |-> <<>>]
                 [] e.k = "FuncCall" -> functionCall(L, e)
                 [] OTHER -> [L |-> [L EXCEPT !.panic = "not implemented"],
                              v |-> NilValue, ins |-> <<>>]
      [] method = "instructions" ->
          IF L.panic # "" THEN [L |-> L, ins |-> <<>>]
          ELSE CASE e.k = "BinaryExpr" ->
                      LET r == binaryExpression(L, e, {"+", "-", "*", "/"})
                      IN  [L |-> r.L, ins |-> r.ins]
                 [] e.k = "VariableDecl" ->
                      LET r == variableDecl(L, e) IN [L |-> r.L, ins |-> r.ins]
                 [] e.k = "FuncCall" ->
                      LET r == functionCall(L, e) IN [L |-> r.L, ins |-> r.ins]
                 [] OTHER -> [L |-> L, ins |-> <<>>]
      \* the loops over expr.Consequent and expr.Else in ifBranch
      [] method = "branchInstructions" ->
          LET es == e
              j == arg[1]
              ins == arg[2] IN
          IF j > Len(es) \/ L.panic # "" THEN [L |-> L, ins |-> ins]
          ELSE LET r == instructions(L, es[j])
               IN  branchInstructions(r.L, es, j + 1, ins \o r.ins)
      \* ifBranch(expr, exit): the condition block, the true block and, with an
      \* else, the false block
      [] method = "ifBranch" ->
          LET exit == arg[1] IN
          LET block == L.nblk + 1
              c == recursiveLoad([L EXCEPT !.nblk = block], e.kids[1])
              trueBlock == block + 1
              t == branchInstructions([c.L EXCEPT !.nblk = trueBlock], e.thn, 1, <<>>)
              falseBlock == trueBlock + 1
              f == branchInstructions([t.L EXCEPT !.nblk = falseBlock], e.els, 1, <<>>)
          IN  IF Len(e.els) = 0
              THEN [L |-> t.L,
                    blocks |-> << Block(block, c.ins, "condbr", <<trueBlock, exit>>),
                                  Block(trueBlock, t.ins, "br", <<exit>>) >>]
              ELSE [L |-> f.L,
                    blocks |-> << Block(block, c.ins, "condbr", <<trueBlock, falseBlock>>),
                                  Block(trueBlock, t.ins, "br", <<exit>>),
                                  Block(falseBlock, f.ins, "br", <<exit>>) >>]
      \* blocks(expr, exit)
      [] method = "blocks" ->
          LET exit == arg[1] IN
          IF e.k = "IfExpr" THEN ifBranch(L, e, exit) ELSE [L |-> L, blocks |-> <<>>]
      \* the loop over expr.Body in function; bs are f.Blocks, the last of which
      \* is the block instructions are being appended to
      [] method = "functionBody" ->
          LET j == arg[1]
              bs == arg[2] IN
          IF L.panic # "" THEN [L |-> L, blocks |-> bs]
          ELSE IF j > Len(e.kids)
               THEN [L |-> L, blocks |-> [bs EXCEPT ![Len(bs)].term = "ret"]]
          ELSE IF isBlockExpr(e.kids[j])
               THEN LET continueBlock == L.nblk + 1
                        b == blocks([L EXCEPT !.nblk = continueBlock], e.kids[j],
                                    continueBlock)
                        branched == [bs EXCEPT ![Len(bs)].term = "br",
                                               ![Len(bs)].targets = <<b.blocks[1].id>>]
                    IN  IF b.L.panic # "" THEN [L |-> b.L, blocks |-> bs]
                        ELSE functionBody(b.L, e, j + 1,
                               Append(branched \o b.blocks,
                                      Block(continueBlock, <<>>, "", <<>>)))
          ELSE LET r == instructions(L, e.kids[j])
               IN  functionBody(r.L, e, j + 1,
                      [bs EXCEPT ![Len(bs)].insts = bs[Len(bs)].insts \o r.ins])

\* function without the deferred restore of the enclosing environment
functionNoRestore(L, e) ==
    LET bound == ValueLookupSet(L, e.v, Value("func", e.v))
        entry == bound.nblk + 1
        b == functionBody([bound EXCEPT !.nblk = entry], e, 1,
                          <<Block(entry, <<>>, "", <<>>)>>)
    IN  [L |-> b.L, fn |-> [name |-> e.v, blocks |-> b.blocks]]

\* LLVMIRBuilder.function: the function is bound in the enclosing
\* environment, the body is lowered in a fresh environment that inherits
\* it, and the deferred call puts the enclosing environment back
function(L, e) ==
    LET bound == ValueLookupSet(L, e.v, Value("func", e.v))
        prevVals == bound.vals
        entry == bound.nblk + 1
        b == functionBody([bound EXCEPT !.nblk = entry], e, 1,
                          <<Block(entry, <<>>, "", <<>>)>>)
    IN  [L |-> [b.L EXCEPT !.vals = prevVals],
         fn |-> [name |-> e.v, blocks |-> b.blocks]]

\* LLVMGenerator.visit of one AST statement (an *AnnotatedExpr)
visit(L, e) ==
    IF e.k = "FuncDecl" THEN function(L, e) ELSE [L |-> L, fn |-> [name |-> "", blocks |-> <<>>]]

\* defineBuiltins: print is the only name bound in a new builder
NewLLVMIRBuilder == [vals |-> ("print" :> Value("func", "print")), nblk |-> 0, panic |-> ""]

(***************************************************************************)
(* Programs handed to the analyzer, as the expressions the parser yields.  *)
(***************************************************************************)
Num(text) == LiteralExpr("Number", text)
Str(text) == LiteralExpr("String", text)
BinaryOps == {"+", "-", "*", "/"}

\* x is a file-scope variable and f a function where the context declares
\* them; print is the built-in; u is declared nowhere
Atoms == {Num("1"), Str("text"), Identifier("x"), Identifier("f"),
          Identifier("print"), Identifier("u")}
Unaries == {UnaryExpr("-", a) : a \in Atoms}
Binaries == {BinaryExpr(op, a, b) : op \in BinaryOps, a \in Atoms, b \in Atoms}
Nested ==
    {BinaryExpr("+", a, b) : a \in Unaries, b \in Atoms}
    \cup {BinaryExpr("+", a, b) : a \in Atoms, b \in Unaries}
    \cup {BinaryExpr("+", BinaryExpr("+", a, b), Num("1")) : a \in Atoms, b \in Atoms}
    \cup {UnaryExpr("-", a) : a \in Unaries}
Values == Atoms \cup Unaries \cup Binaries \cup Nested
Calls == {FuncCall(n, <<>>) : n \in {"f", "u"}}
         \cup {FuncCall(n, <<a>>) : n \in {"print", "u"}, a \in Atoms}
ExprStatements == Values \cup Calls
                  \cup {VariableDecl("y", v) : v \in Values \cup Calls}

DeclF == FuncDecl("f", <<>>)
DeclG == FuncDecl("g", <<>>)
DeclX == VariableDecl("x", Num("1"))

\* statements of a function body
BodyStatements ==
    { Identifier("u1"), Identifier("u2"), Identifier("u3"),
      FuncCall("g", <<>>),
      FuncCall("print", <<Identifier("x")>>),
      VariableDecl("z", Num("1")),
      IfExpr(BooleanExpr("==", Identifier("x"), Num("1")),
             <<FuncCall("print", <<Num("1")>>)>>, <<FuncCall("g", <<>>)>>),
      IfExpr(BooleanExpr("==", Num("1"), Num("1")),
             <<FuncCall("print", <<Num("1")>>)>>, <<>>),
      IfExpr(BooleanExpr("==", Num("1"), Num("1")),
             <<FuncCall("print", <<Num("1")>>)>>, <<VariableDecl("z", Num("1"))>>) }
Bodies == UNION {[1..n -> BodyStatements] : n \in 0..MaxBody}

\* if 1 == 1 { print(1) } else { print(2) }
IfElse ==
    IfExpr(BooleanExpr("==", Num("1"), Num("1")),
           <<FuncCall("print", <<Num("1")>>)>>, <<FuncCall("print", <<Num("2")>>)>>)

\* func main() { z := 1 } next to a statement that refers to z
DeclMainZ == FuncDecl("main", <<VariableDecl("z", Num("1"))>>)
RefersToZ ==
    { Identifier("z"),
      FuncCall("print", <<Identifier("z")>>),
      VariableDecl("y", Identifier("z")),
      VariableDecl("y", BinaryExpr("+", Identifier("z"), Num("1"))),
      VariableDecl("y", FuncCall("print", <<Identifier("z")>>)),
      FuncDecl("g", <<Identifier("z")>>) }

\* numerals with leading zeros, at and beyond the range of an i32
LongNumerals == {"007", "2147483647", "2147483648", "99999999999"}

\* if 1 == 1 { if 1 == 1 { print(1) } }, alone and after a call
NestedIf ==
    IfExpr(BooleanExpr("==", Num("1"), Num("1")),
           <<IfExpr(BooleanExpr("==", Num("1"), Num("1")),
                    <<FuncCall("print", <<Num("1")>>)>>, <<>>)>>, <<>>)

Programs ==
    {<<IfElse>>, <<FuncDecl("main", <<IfElse>>)>>}
    \cup
    {<<FuncDecl("main", <<NestedIf>>)>>,
     <<FuncDecl("main", <<FuncCall("print", <<Num("1")>>), NestedIf>>)>>}
    \cup
    {<<FuncDecl("main", <<VariableDecl("z", Num(n))>>)>> : n \in LongNumerals}
    \cup
    {<<DeclMainZ, st>> : st \in RefersToZ} \cup {<<st, DeclMainZ>> : st \in RefersToZ}
    \cup
    {pre \o <<st>> \o suf :
        pre \in {<<>>, <<DeclF, DeclX>>},
        st \in ExprStatements,
        suf \in {<<>>, <<DeclF>>, <<DeclX>>}}
    \cup
    {pre \o <<FuncDecl("main", b)>> \o suf :
        pre \in {<<>>, <<DeclX>>},
        b \in Bodies,
        suf \in {<<>>, <<DeclG>>}}

(***************************************************************************)
(* NewGlobalSymbolTable, NewContextAnalyser, and the state before Compile  *)
(* is called.                                                              *)
(***************************************************************************)
NewGlobalSymbolTable ==
    [ent |-> ("print" :> FuncType(<<ArgumentType("v", AnyType)>>, <<>>)),
     errs |-> <<>>, cap |-> 0]

NoAST == [stmts |-> <<>>, errs |-> <<>>]
NoReturn == [errs |-> <<>>, err |-> ""]
NoFirst == [ran |-> FALSE, ast |-> NoAST, ann |-> <<>>]

InitAnalyzer ==
    /\ prog \in Programs
    /\ src = 0
    /\ cache = <<>>
    /\ live = TRUE
    /\ started = FALSE
    /\ index = 0
    /\ global = NewGlobalSymbolTable
    /\ ast = NoAST
    /\ ann = <<>>
    /\ nextAddr = 1
    /\ apanic = ""
    /\ pc = "start"
    /\ ret = NoReturn
    /\ first = NoFirst

InitLowering ==
    /\ values = <<>>
    /\ lpos = 0
    /\ lpanic = ""
    /\ backend = FALSE
    /\ mod = <<>>

IdleAnalyzer ==
    /\ prog = <<>> /\ src = 0 /\ cache = <<>> /\ live = TRUE /\ started = FALSE
    /\ index = 0 /\ global = NewGlobalSymbolTable /\ ast = NoAST /\ ann = <<>>
    /\ nextAddr = 1 /\ apanic = "" /\ pc = "start" /\ ret = NoReturn
    /\ first = NoFirst

(***************************************************************************)
(* ContextAnalyzer.get.  The SyntacticAnalyzer yields the expressions of   *)
(* prog in order and then the end-of-stream marker.                        *)
(***************************************************************************)
NilExpr == Node("nil", "", "", <<>>)

\* SyntacticAnalyzer.Get
parserGet == IF src < Len(prog) THEN prog[src + 1] ELSE EOS

\* the expression get() returns, NilExpr for nil
get ==
    IF live
    THEN IF parserGet = EOS THEN NilExpr ELSE parserGet
    ELSE IF index >= Len(cache) THEN NilExpr ELSE cache[index + 1]

\* get() without `c.live = false`: the analyzer stays in live mode after EOS
getEffectStaysLive ==
    IF live
    THEN /\ started' = TRUE
         /\ src' = src + 1
         /\ live' = TRUE
         /\ cache' = IF parserGet = EOS THEN cache ELSE Append(cache, parserGet)
         /\ index' = index
    ELSE /\ index' = IF index >= Len(cache) THEN index ELSE index + 1
         /\ UNCHANGED <<started, src, live, cache>>

\* what get() does to the analyzer
getEffect ==
    IF live
    THEN /\ started' = TRUE
         /\ src' = src + 1
         /\ live' = (parserGet # EOS)
         /\ cache' = IF parserGet = EOS THEN cache ELSE Append(cache, parserGet)
         /\ index' = index
    ELSE /\ index' = IF index >= Len(cache) THEN index ELSE index + 1
         /\ UNCHANGED <<started, src, live, cache>>

\* the table a pointer to which is handed to resolve, and what it became
TableMachine(tab) ==
    Machine(tab.ent,
            IF tab.cap = 0 THEN <<>>
            ELSE <<[i \in 1..tab.cap |->
                      IF i <= Len(tab.errs) THEN tab.errs[i] ELSE NoError]>>,
            ann, nextAddr)
TableSlice(tab) ==
    IF tab.cap = 0 THEN NilSlice
    ELSE [arr |-> 1, len |-> Len(tab.errs), cap |-> tab.cap]
TableOf(m, s) == [ent |-> m.ent, errs |-> Elems(m.heap, s), cap |-> s.cap]

(***************************************************************************)
(* Compiler.Compile, step by step.                                         *)
(***************************************************************************)
\* NewLexer fails to open the file: the fatal error is returned at once
OpenFails ==
    /\ pc = "start"
    /\ ret' = [errs |-> <<>>, err |-> "open"]
    /\ pc' = "returned"
    /\ UNCHANGED <<prog, src, cache, live, started, index, global, ast, ann,
                   nextAddr, apanic>>
    /\ UNCHANGED lvars
    /\ UNCHANGED <<pvars, tvars, xvars, bvars>>
    /\ UNCHANGED first

\* DefineInto: c.reset()
DefineIntoBegin ==
    /\ pc = "start"
    /\ index' = 0
    /\ pc' = "define"
    /\ UNCHANGED <<prog, src, cache, live, started, global, ast, ann, nextAddr,
                   apanic, ret>>
    /\ UNCHANGED lvars
    /\ UNCHANGED <<pvars, tvars, xvars, bvars>>
    /\ UNCHANGED first

\* DefineInto: one iteration of the loop on an expression
DefineInto ==
    /\ pc = "define"
    /\ get # NilExpr
    /\ getEffect
    /\ LET e == get
           site == <<Len(cache) + 1>>
       IN  CASE e.k = "VariableDecl" ->
                  LET r == resolve(TableMachine(global), TableSlice(global),
                                   e.kids[1], Append(site, 1))
                  IN  /\ global' = IF r.m.panic # "" THEN global
                                   ELSE TableOf(Add(r.m, e.v, r.t), r.s)
                      /\ nextAddr' = r.m.addr
                      /\ ann' = r.m.ann
                      /\ apanic' = r.m.panic
                      /\ pc' = IF r.m.panic # "" THEN "crashed" ELSE pc
             [] e.k = "FuncDecl" ->
                  /\ global' = [global EXCEPT
                                  !.ent = addFunction(TableMachine(global), e).ent]
                  /\ UNCHANGED <<nextAddr, ann, apanic, pc>>
             [] OTHER -> UNCHANGED <<global, nextAddr, ann, apanic, pc>>
    /\ UNCHANGED <<prog, ast, ret>>
    /\ UNCHANGED lvars
    /\ UNCHANGED <<pvars, tvars, xvars, bvars>>
    /\ UNCHANGED first

\* DefineInto: get() returns nil and the loop ends
DefineIntoEnd ==
    /\ pc = "define"
    /\ get = NilExpr
    /\ getEffect
    /\ pc' = "defined"
    /\ UNCHANGED <<prog, global, ast, ann, nextAddr, apanic, ret>>
    /\ UNCHANGED lvars
    /\ UNCHANGED <<pvars, tvars, xvars, bvars>>
    /\ UNCHANGED first

\* Do: c.reset() and the new AST
DoBegin ==
    /\ pc = "defined"
    /\ index' = 0
    /\ ast' = NoAST
    /\ pc' = "do"
    /\ UNCHANGED <<prog, src, cache, live, started, global, ann, nextAddr,
                   apanic, ret>>
    /\ UNCHANGED lvars
    /\ UNCHANGED <<pvars, tvars, xvars, bvars>>
    /\ UNCHANGED first

RECURSIVE dedup(_, _, _)
\* the loop of Do that merges stab.Errors into ast.Errors: err == err2
\* compares the two pointers
dedup(astErrors, stabErrors, i) ==
    IF i > Len(stabErrors) THEN astErrors
    ELSE LET err == stabErrors[i]
             isDuplicate == \E j \in 1..Len(astErrors) :
                               SamePointer(err, astErrors[j])
         IN  dedup(IF isDuplicate THEN astErrors ELSE Append(astErrors, err),
                   stabErrors, i + 1)

\* Do: one iteration of the loop on an expression
Do ==
    /\ pc = "do"
    /\ get # NilExpr
    /\ getEffect
    /\ LET e == get
           site == <<IF live THEN Len(cache) + 1 ELSE index + 1>>
           m0 == Machine(global.ent, <<>>, ann, nextAddr)
           c == makeCopy(m0, global.errs)
           r == analyze(c.m, c.s, e, site)
           stab == [ent |-> r.m.ent, errs |-> Elems(r.m.heap, r.s)]
       IN  /\ nextAddr' = r.m.addr
           /\ ann' = r.m.ann
           /\ apanic' = r.m.panic
           /\ IF r.m.panic # ""
              THEN pc' = "crashed" /\ ast' = ast
              ELSE /\ pc' = pc
                   /\ ast' = [stmts |-> Append(ast.stmts, [stab |-> stab, expr |-> e]),
                              errs |-> dedup(ast.errs, stab.errs, 1)]
    /\ UNCHANGED <<prog, global, ret>>
    /\ UNCHANGED lvars
    /\ UNCHANGED <<pvars, tvars, xvars, bvars>>
    /\ UNCHANGED first

\* Do: get() returns nil and the AST is returned
DoEnd ==
    /\ pc = "do"
    /\ get = NilExpr
    /\ getEffect
    /\ pc' = "analyzed"
    /\ UNCHANGED <<prog, global, ast, ann, nextAddr, apanic, ret>>
    /\ UNCHANGED lvars
    /\ UNCHANGED <<pvars, tvars, xvars, bvars>>
    /\ UNCHANGED first

\* Compile with the test of the error list removed: it always goes on to lower
lowersRegardless == FALSE

\* the outcome of `if len(ast.Errors) != 0`
reportsErrors == Len(ast.errs) # 0

\* Compile: return ast.Errors, nil
ReturnErrors ==
    /\ pc = "analyzed"
    /\ reportsErrors
    /\ ret' = [errs |-> ast.errs, err |-> "nil"]
    /\ pc' = "returned"
    /\ UNCHANGED <<prog, src, cache, live, started, index, global, ast, ann,
                   nextAddr, apanic>>
    /\ UNCHANGED lvars
    /\ UNCHANGED <<pvars, tvars, xvars, bvars>>
    /\ UNCHANGED first

\* Compile: NewLLVMGenerator(ast) and the builder of gen.Do()
LowerBegin ==
    /\ pc = "analyzed"
    /\ ~reportsErrors
    /\ values' = NewLLVMIRBuilder.vals
    /\ lpos' = 0
    /\ pc' = "lower"
    /\ UNCHANGED <<lpanic, backend>>
    /\ UNCHANGED <<prog, src, cache, live, started, index, global, ast, ann,
                   nextAddr, apanic, ret>>
    /\ UNCHANGED <<pvars, tvars, xvars, bvars>>
    /\ UNCHANGED first
    /\ UNCHANGED mod

\* gen.Do(): visit of the next statement of the AST
Visit ==
    /\ pc = "lower"
    /\ lpos < Len(ast.stmts)
    /\ LET r == visit([NewLLVMIRBuilder EXCEPT !.vals = values],
                      ast.stmts[lpos + 1].expr)
       IN  /\ lpanic' = r.L.panic
           /\ values' = r.L.vals
           /\ mod' = IF r.L.panic = "" /\ r.fn.name # ""
                      THEN Append(mod, r.fn) ELSE mod
           /\ pc' = IF r.L.panic # "" THEN "crashed" ELSE pc
    /\ lpos' = lpos + 1
    /\ backend' = backend
    /\ UNCHANGED <<prog, src, cache, live, started, index, global, ast, ann,
                   nextAddr, apanic, ret>>
    /\ UNCHANGED <<pvars, tvars, xvars, bvars>>
    /\ UNCHANGED first

\* Compile: return nil, c.build(ir); the backend succeeds or fails
Build ==
    /\ pc = "lower"
    /\ lpos = Len(ast.stmts)
    /\ backend' = TRUE
    /\ \E err \in {"nil", "backend"} : ret' = [errs |-> <<>>, err |-> err]
    /\ pc' = "returned"
    /\ UNCHANGED <<values, lpos, lpanic>>
    /\ UNCHANGED <<prog, src, cache, live, started, index, global, ast, ann,
                   nextAddr, apanic>>
    /\ UNCHANGED <<pvars, tvars, xvars, bvars>>
    /\ UNCHANGED first
    /\ UNCHANGED mod

Next ==
    \/ OpenFails
    \/ DefineIntoBegin
    \/ DefineInto
    \/ DefineIntoEnd
    \/ DoBegin
    \/ Do
    \/ DoEnd
    \/ ReturnErrors
    \/ LowerBegin
    \/ Visit
    \/ Build

(***************************************************************************)
(* The lexer (Lexer, lexerState).  The producer Lexer.Do runs one state    *)
(* function per step and sends tokens on a channel of capacity 2; the      *)
(* consumer calls Lexer.Get.  Runes are one-character strings.             *)
(***************************************************************************)
\* longest input, in lexemes
MaxWords == 2
\* receives made on the closed channel that the model follows
MaxGets == 5

\* capacity of Lexer.output
LexChanCap == 2

\* EOF rune = 0; string(EOF) is the one-character string holding it
EOFRune == "\\0"

\* utf8.RuneError, which ReadRune delivers with a nil error for a byte that
\* does not decode
RuneError == "\\uFFFD"

\* unicode.IsSpace, '0' <= r <= '9', unicode.IsLetter on the runes of Inputs
Spaces == {" ", "\n"}
Digits == {"1", "2"}
Letters == {"f", "u", "n", "c", "i", "e", "l", "s", "x"}

keywordTable == "func" :> "Func"

operatorTable ==
    ("+" :> "Plus") @@ ("-" :> "Minus") @@ (":=" :> "Declaration")
    @@ ("//" :> "LineComment") @@ ("(" :> "OpenParen") @@ (")" :> "CloseParen")
    @@ ("{" :> "OpenCurly") @@ ("}" :> "CloseCurly") @@ ("," :> "Comma")

\* strings.Builder: the runes written, as one string
RECURSIVE String(_)
String(runes) == IF runes = <<>> THEN "" ELSE Head(runes) \o String(Tail(runes))

\* the rune ReadRune delivers at reader position i (EOF past the end)
runeAt(i) == IF i <= Len(input) THEN input[i] ELSE EOFRune

\* `for r := l.peek(); <r in class>; r = l.peek() { l.next() }` from position
\* i: the position of the first rune outside class
scan(i, class) ==
    CHOOSE j \in i..(Len(input) + 1) :
        /\ \A k \in i..(j - 1) : input[k] \in class
        /\ runeAt(j) \notin class

\* l.output <- Token{...}: blocks while the buffer is full
canSend == Len(chan) < LexChanCap
send(t) == chan' = Append(chan, t)

\* what peek adds to l.pos when the rune at reader position i is next: next
\* has counted the rune, and the count is only reverted for a rune other than
\* EOF and utf8.RuneError
peekDrift(i) == IF i <= Len(input) /\ input[i] \in {EOFRune, RuneError} THEN 1 ELSE 0

\* location and the tail of emmitValue, with l.pos = p when the token is sent
NoLoc == [start |-> -1, end |-> -1]
located(p) ==
    /\ locs' = Append(locs, [start |-> tokStart, end |-> p])
    /\ tokStart' = p
    /\ pos' = p

\* errorf sends a token without Loc and leaves l.start alone
unlocated(p) ==
    /\ locs' = Append(locs, NoLoc)
    /\ tokStart' = tokStart
    /\ pos' = p

Lexemes ==
    { <<"f", "u", "n", "c">>, <<"i", "f">>, <<"e", "l", "s", "e">>, <<"x">>,
      <<"1">>, <<"1", "2">>, <<"\"", "s", "\"">>, <<"\"", "s">>,
      <<"+">>, <<"-">>, <<"*">>, <<"/">>, <<"=", "=">>, <<":", "=">>, <<":">>,
      <<"/", "/", "c", "\n">>, <<"(">>, <<")">>, <<"{">>, <<"}">>, <<",">>,
      <<"@">>, <<" ">>, <<EOFRune>>, <<RuneError>> }

\* the runes that occur in the inputs
Runes == UNION {{w[i] : i \in DOMAIN w} : w \in Lexemes}

RECURSIVE Concat(_)
Concat(ws) == IF ws = <<>> THEN <<>> ELSE Head(ws) \o Concat(Tail(ws))
Inputs == {Concat(ws) : ws \in UNION {[1..n -> Lexemes] : n \in 0..MaxWords}}

\* NewLexerFromReader
InitLexer ==
    /\ input \in Inputs
    /\ rd = 1
    /\ lstate = "startState"
    /\ chan = <<>>
    /\ chanClosed = FALSE
    /\ got = <<>>
    /\ pos = 0
    /\ tokStart = 0
    /\ locs = <<>>

IdleLexer ==
    /\ input = <<>>
    /\ rd = 1
    /\ lstate = "idle"
    /\ chan = <<>>
    /\ chanClosed = FALSE
    /\ got = <<>>
    /\ pos = 0
    /\ tokStart = 0
    /\ locs = <<>>

startState ==
    /\ lstate = "startState"
    /\ LET j == scan(rd, Spaces)
           r == runeAt(j)
       IN  /\ rd' = j
           /\ lstate' = CASE r = EOFRune -> "endState"
                          [] r \in Digits -> "numberState"
                          [] r = "\"" -> "stringState"
                          [] r \in Letters -> "identifierState"
                          [] OTHER -> "operatorState"
           /\ pos' = pos + (j - rd) + peekDrift(j)
    /\ UNCHANGED <<input, chan, chanClosed, got, tokStart, locs>>
    /\ UNCHANGED <<pvars, avars, lvars, tvars, bvars>>

numberState ==
    /\ lstate = "numberState"
    /\ canSend
    /\ LET j == scan(rd, Digits)
       IN  /\ send(Tok("Number", String(SubSeq(input, rd, j - 1))))
           /\ located(pos + (j - rd) + peekDrift(j))
           /\ rd' = j
    /\ lstate' = "startState"
    /\ UNCHANGED <<input, chanClosed, got>>
    /\ UNCHANGED <<pvars, avars, lvars, tvars, bvars>>

\* an unclosed string reads up to EOF and reports errorf, which returns endState
stringState ==
    /\ lstate = "stringState"
    /\ canSend
    /\ LET j == scan(rd + 1, Runes \ {"\"", EOFRune})
           str == String(SubSeq(input, rd + 1, j - 1))
           read == IF j <= Len(input) THEN j + 1 ELSE j
       IN  IF runeAt(j) = EOFRune
           THEN /\ send(Tok("Error", "unclosed string: " \o str))
                /\ unlocated(pos + (read - rd))
                /\ rd' = read
                /\ lstate' = "endState"
           ELSE /\ send(Tok("String", str))
                /\ located(pos + (read - rd))
                /\ rd' = read
                /\ lstate' = "startState"
    /\ UNCHANGED <<input, chanClosed, got>>
    /\ UNCHANGED <<pvars, avars, lvars, tvars, bvars>>

identifierState ==
    /\ lstate = "identifierState"
    /\ canSend
    /\ LET j == scan(rd, Letters)
           id == String(SubSeq(input, rd, j - 1))
       IN  /\ send(IF id \in DOMAIN keywordTable
                   THEN Tok(keywordTable[id], id)
                   ELSE Tok("Identifier", id))
           /\ located(pos + (j - rd) + peekDrift(j))
           /\ rd' = j
    /\ lstate' = "startState"
    /\ UNCHANGED <<input, chanClosed, got>>
    /\ UNCHANGED <<pvars, avars, lvars, tvars, bvars>>

\* operatorState with an errorf that goes on lexing at startState
operatorStateRestarts ==
    /\ lstate = "operatorState"
    /\ LET r == runeAt(rd)
           op == r \o runeAt(rd + 1)
           \* the two l.peek() of a rune that may start a two-rune operator
           peeked == IF r \in {":", "/"} THEN 2 * peekDrift(rd + 1) ELSE 0
       IN  IF r \in {":", "/"} /\ op \in DOMAIN operatorTable
           THEN IF operatorTable[op] = "LineComment"
                THEN /\ rd' = rd + 2
                     /\ lstate' = "lineCommentState"
                     /\ chan' = chan
                     /\ pos' = pos + 2 + peeked
                     /\ UNCHANGED <<tokStart, locs>>
                ELSE /\ canSend
                     /\ send(Tok(operatorTable[op], op))
                     /\ located(pos + 2 + peeked)
                     /\ rd' = rd + 2
                     /\ lstate' = "startState"
           ELSE IF r \in DOMAIN operatorTable
                THEN /\ canSend
                     /\ send(Tok(operatorTable[r], r))
                     /\ located(pos + 1 + peeked)
                     /\ rd' = rd + 1
                     /\ lstate' = "startState"
                ELSE /\ canSend
                     /\ send(Tok("Error", "invalid symbol '" \o r \o "'"))
                     /\ unlocated(pos + 1 + peeked)
                     /\ rd' = rd + 1
                     /\ lstate' = "startState"
    /\ UNCHANGED <<input, chanClosed, got>>
    /\ UNCHANGED <<pvars, avars, lvars, tvars, bvars>>

operatorState ==
    /\ lstate = "operatorState"
    /\ LET r == runeAt(rd)
           op == r \o runeAt(rd + 1)
           \* the two l.peek() of a rune that may start a two-rune operator
           peeked == IF r \in {":", "/"} THEN 2 * peekDrift(rd + 1) ELSE 0
       IN  IF r \in {":", "/"} /\ op \in DOMAIN operatorTable
           THEN IF operatorTable[op] = "LineComment"
                THEN /\ rd' = rd + 2
                     /\ lstate' = "lineCommentState"
                     /\ chan' = chan
                     /\ pos' = pos + 2 + peeked
                     /\ UNCHANGED <<tokStart, locs>>
                ELSE /\ canSend
                     /\ send(Tok(operatorTable[op], op))
                     /\ located(pos + 2 + peeked)
                     /\ rd' = rd + 2
                     /\ lstate' = "startState"
           ELSE IF r \in DOMAIN operatorTable
                THEN /\ canSend
                     /\ send(Tok(operatorTable[r], r))
                     /\ located(pos + 1 + peeked)
                     /\ rd' = rd + 1
                     /\ lstate' = "startState"
                ELSE /\ canSend
                     /\ send(Tok("Error", "invalid symbol '" \o r \o "'"))
                     /\ unlocated(pos + 1 + peeked)
                     /\ rd' = rd + 1
                     /\ lstate' = "endState"
    /\ UNCHANGED <<input, chanClosed, got>>
    /\ UNCHANGED <<pvars, avars, lvars, tvars, bvars>>

lineCommentState ==
    /\ lstate = "lineCommentState"
    /\ canSend
    /\ LET j == scan(rd, Runes \ {"\n", EOFRune})
           \* every rune of the comment is peeked, then read
           bad == Cardinality({k \in rd..(j - 1) : peekDrift(k) = 1})
       IN  /\ send(Tok("LineComment", String(SubSeq(input, rd, j - 1))))
           /\ located(pos + (j - rd) + bad + peekDrift(j))
           /\ rd' = j
    /\ lstate' = "startState"
    /\ UNCHANGED <<input, chanClosed, got>>
    /\ UNCHANGED <<pvars, avars, lvars, tvars, bvars>>

\* emmitNext(TokenEOF) reads one more rune for the value; the state returned
\* by emmitValue is dropped and nil ends the loop of Do
endState ==
    /\ lstate = "endState"
    /\ canSend
    /\ send(Tok("EOF", runeAt(rd)))
    /\ rd' = IF rd <= Len(input) THEN rd + 1 ELSE rd
    /\ located(IF rd <= Len(input) THEN pos + 1 ELSE pos)
    /\ lstate' = "nil"
    /\ UNCHANGED <<input, chanClosed, got>>
    /\ UNCHANGED <<pvars, avars, lvars, tvars, bvars>>

\* Lexer.Do after its loop: close(l.output)
LexerClose ==
    /\ lstate = "nil"
    /\ ~chanClosed
    /\ chanClosed' = TRUE
    /\ UNCHANGED <<input, rd, lstate, chan, got, pos, tokStart, locs>>
    /\ UNCHANGED <<pvars, avars, lvars, tvars, bvars>>

\* Lexer.Get: <-l.Chan(); a receive on the closed, drained channel yields the
\* zero Token
LexerGet ==
    /\ lstate # "idle"
    /\ IF chan # <<>>
       THEN /\ got' = Append(got, Head(chan))
            /\ chan' = Tail(chan)
       ELSE /\ chanClosed
            /\ Len(SelectSeq(got, LAMBDA t : t = NoTok)) < MaxGets
            /\ got' = Append(got, NoTok)
            /\ chan' = chan
    /\ UNCHANGED <<input, rd, lstate, chanClosed, pos, tokStart, locs>>
    /\ UNCHANGED <<pvars, avars, lvars, tvars, bvars>>

LexNext ==
    \/ startState
    \/ numberState
    \/ stringState
    \/ identifierState
    \/ operatorState
    \/ lineCommentState
    \/ endState
    \/ LexerClose
    \/ LexerGet

\* every token sent so far, in order: those received and those still buffered
emitted == SelectSeq(got, LAMBDA t : t # NoTok) \o chan


(***************************************************************************)
(* Compiler.build (pkg/ir.go): the IR goes through an io.Pipe to the       *)
(* standard input of the backend; one task of an errgroup writes it and    *)
(* closes the pipe, the other runs the backend and collects its output.    *)
(***************************************************************************)

\* reads of the pipe a Write may need (at least one, also for an empty IR)
MaxChunks == 4

OSs == {"windows64", "linux", "darwin"}

outName == IF target = "windows64" THEN "main.exe" ELSE "main"

InitBuild ==
    /\ target \in OSs
    /\ irLeft \in 1..MaxChunks
    /\ wr = "writing"
    /\ cmd = "new"
    /\ copier = "none"
    /\ group = [write |-> "running", run |-> "running"]
    /\ built = "waiting"

IdleBuild ==
    /\ target = "linux"
    /\ irLeft = 0
    /\ wr = "idle"
    /\ cmd = "idle"
    /\ copier = "none"
    /\ group = [write |-> "idle", run |-> "idle"]
    /\ built = "idle"

\* cmd.CombinedOutput: Start fails (no backend to execute); nothing was set
\* up to read cmd.Stdin, and the task returns the error
CmdStartFails ==
    /\ cmd = "new"
    /\ cmd' = "startFailed"
    /\ group' = [group EXCEPT !.run = "err"]
    /\ UNCHANGED <<target, irLeft, wr, copier, built>>
    /\ UNCHANGED <<pvars, avars, lvars, tvars, xvars>>

\* cmd.CombinedOutput: Start succeeds; as cmd.Stdin is not a file, a
\* goroutine copies it into the standard input of the backend
CmdStart ==
    /\ cmd = "new"
    /\ cmd' = "running"
    /\ copier' = "copying"
    /\ UNCHANGED <<target, irLeft, wr, group, built>>
    /\ UNCHANGED <<pvars, avars, lvars, tvars, xvars>>

\* one Read of the pipe by the copy, which meets the pending w.Write; writing
\* what was read to a backend that has exited fails and ends the copy
CopyStdin ==
    /\ copier = "copying"
    /\ wr = "writing"
    /\ irLeft > 0
    /\ irLeft' = irLeft - 1
    /\ copier' = IF cmd = "running" THEN "copying" ELSE "done"
    /\ UNCHANGED <<target, wr, cmd, group, built>>
    /\ UNCHANGED <<pvars, avars, lvars, tvars, xvars>>

\* w.Write returns once every byte was read; return w.Close()
WriteReturns ==
    /\ wr = "writing"
    /\ irLeft = 0
    /\ wr' = "closed"
    /\ group' = [group EXCEPT !.write = "nil"]
    /\ UNCHANGED <<target, irLeft, cmd, copier, built>>
    /\ UNCHANGED <<pvars, avars, lvars, tvars, xvars>>

\* the copy reads the end of the closed pipe and closes the backend's input
CopyEOF ==
    /\ copier = "copying"
    /\ wr = "closed"
    /\ copier' = "done"
    /\ UNCHANGED <<target, irLeft, wr, cmd, group, built>>
    /\ UNCHANGED <<pvars, avars, lvars, tvars, xvars>>

\* the backend exits: with an error at any moment, with success only after
\* it has seen the end of its input
CmdExit ==
    /\ cmd = "running"
    /\ \/ cmd' = "exited1"
       \/ copier = "done" /\ cmd' = "exited0"
    /\ UNCHANGED <<target, irLeft, wr, copier, group, built>>
    /\ UNCHANGED <<pvars, avars, lvars, tvars, xvars>>

\* cmd.CombinedOutput returns: Wait has seen the exit of the backend and the
\* end of the copy
CmdWait ==
    /\ cmd \in {"exited0", "exited1"}
    /\ copier = "done"
    /\ group.run = "running"
    /\ group' = [group EXCEPT !.run = IF cmd = "exited0" THEN "nil" ELSE "err"]
    /\ UNCHANGED <<target, irLeft, wr, cmd, copier, built>>
    /\ UNCHANGED <<pvars, avars, lvars, tvars, xvars>>

\* return errs.Wait(): both tasks have returned
ErrsWait ==
    /\ built = "waiting"
    /\ group.write \in {"nil", "err"}
    /\ group.run \in {"nil", "err"}
    /\ built' = IF "err" \in {group.write, group.run} THEN "err" ELSE "nil"
    /\ UNCHANGED <<target, irLeft, wr, cmd, copier, group>>
    /\ UNCHANGED <<pvars, avars, lvars, tvars, xvars>>

BuildNext ==
    \/ CmdStartFails
    \/ CmdStart
    \/ CopyStdin
    \/ WriteReturns
    \/ CopyEOF
    \/ CmdExit
    \/ CmdWait
    \/ ErrsWait

(***************************************************************************)
(* Specifications.                                                         *)
(***************************************************************************)
Init == InitAnalyzer /\ InitLowering /\ IdleParser /\ IdleTypes /\ IdleLexer /\ IdleBuild
Spec == Init /\ [][Next]_vars

ParseInit ==
    InitParser /\ IdleAnalyzer /\ InitLowering /\ IdleTypes /\ IdleLexer /\ IdleBuild

(***************************************************************************)
(* The parser on expression statements: chains of number literals joined   *)
(* by + - * /, optionally with one parenthesised group, and the call and   *)
(* declaration forms of the parser's tests.                                *)
(***************************************************************************)
\* most operands in a generated chain
MaxOperands == 3

TokDiv == Tok("Div", "/")

\* operand 1 op[1] operand 2 ... operand n, the operands being the numbers
\* 1, 2, ... n; and the same chain with operands i..j enclosed in parentheses
ArithRuns ==
    LET Operators == {TokPlus, TokMinus, TokMulti, TokDiv}
        Chain(n, ops) ==
            [k \in 1..(2 * n - 1) |->
                IF k % 2 = 1 THEN Tok("Number", ToString((k + 1) \div 2))
                ELSE ops[k \div 2]]
        Chains == {Chain(n, ops) : n \in 1..MaxOperands,
                                   ops \in [1..(MaxOperands - 1) -> Operators]}
        Parenthesised(run, i, j) ==
            SubSeq(run, 1, 2 * i - 2) \o <<TokOpenParentheses>>
            \o SubSeq(run, 2 * i - 1, 2 * j - 1) \o <<TokCloseParentheses>>
            \o SubSeq(run, 2 * j, Len(run))
    IN  Chains \cup UNION {{Parenthesised(r, g[1], g[2]) :
                              g \in {h \in (1..MaxOperands) \X (1..MaxOperands) :
                                        h[1] <= h[2] /\ 2 * h[2] - 1 <= Len(r)}} :
                          r \in Chains}

TokFoo == Tok("Identifier", "foo")
CallRuns ==
    { <<TokFoo, TokOpenParentheses, TokCloseParentheses>>,
      <<TokFoo, TokOpenParentheses, TokNumber, TokComma, Tok("Number", "2"),
        TokCloseParentheses>>,
      <<TokNumber, TokPlus, TokFoo, TokOpenParentheses, TokCloseParentheses>>,
      <<TokFoo, TokOpenParentheses, TokCloseParentheses, TokPlus, TokNumber>>,
      <<TokFoo, TokOpenParentheses, TokNumber, Tok("Number", "2"),
        TokCloseParentheses>>,
      <<TokFoo, TokOpenParentheses, TokNumber>>,
      <<TokFoo, TokOpenParentheses, TokNumber, TokCloseCurly>>,
      <<TokIdentifier, TokDeclaration, TokNumber>>,
      <<TokIdentifier, TokDeclaration, TokFoo, TokOpenParentheses,
        TokCloseParentheses>>,
      <<TokNumber, TokDeclaration, Tok("Number", "2")>>,
      <<TokIdentifier, TokPlus, TokNumber, TokDeclaration, Tok("Number", "2")>> }

ExprStreams == {Append(r, TokEOF) : r \in ArithRuns \cup CallRuns}

ExprInit ==
    /\ toks \in ExprStreams
    /\ mode \in {"Run", "Do"}
    /\ tpos = 0
    /\ buf = NoTok
    /\ stmts = <<>>
    /\ output = <<>>
    /\ closed = FALSE
    /\ recv = <<>>
    /\ ppc = "loop"
    /\ IdleAnalyzer /\ InitLowering /\ IdleTypes /\ IdleLexer /\ IdleBuild

ExprSpec == ExprInit /\ [][ParseNext]_vars

LexInit ==
    InitLexer /\ IdleParser /\ IdleAnalyzer /\ InitLowering /\ IdleTypes /\ IdleBuild
LexSpec == LexInit /\ [][LexNext]_vars
ParseSpec == ParseInit /\ [][ParseNext]_vars


(***************************************************************************)
(* The analyzer driven directly, as its tests drive it: DefineInto, Do,    *)
(* and Do once more on the same analyzer and the same global table.        *)
(***************************************************************************)
\* the second call of Do: what the first run built is kept for comparison,
\* then c.reset() and the new AST
DoAgain ==
    /\ pc = "analyzed"
    /\ ~first.ran
    /\ first' = [ran |-> TRUE, ast |-> ast, ann |-> ann]
    /\ index' = 0
    /\ ast' = NoAST
    /\ pc' = "do"
    /\ UNCHANGED <<prog, src, cache, live, started, global, ann, nextAddr,
                   apanic, ret>>
    /\ UNCHANGED <<pvars, lvars, tvars, xvars, bvars>>

AnalyzeNext ==
    \/ DefineIntoBegin
    \/ DefineInto
    \/ DefineIntoEnd
    \/ DoBegin
    \/ Do
    \/ DoEnd
    \/ DoAgain

AnalyzeSpec == Init /\ [][AnalyzeNext]_vars

(***************************************************************************)
(* Type equality on its own: two constructible types and the two calls     *)
(* a.Equals(b) and b.Equals(a).                                            *)
(***************************************************************************)
BasicTypes == {BasicType("int"), BasicType("string")}
TypeErrs == {TypeErr(TypeErrUndefined), TypeErr(TypeErrIncompatible)}
ArgumentTypes == {ArgumentType("v", AnyType), ArgumentType("v", BasicType("int")),
                  ArgumentType("w", BasicType("int"))}
FuncTypes ==
    {FuncType(a, r) :
        a \in UNION {[1..n -> ArgumentTypes] : n \in 0..MaxSig},
        r \in UNION {[1..n -> BasicTypes] : n \in 0..MaxSig}}
Types == BasicTypes \cup TypeErrs \cup {AnyType} \cup ArgumentTypes \cup FuncTypes

InitTypes ==
    /\ ta \in Types
    /\ tb \in Types
    /\ teq = [done |-> FALSE, ab |-> FALSE, ba |-> FALSE]

\* ta.Equals(tb) and tb.Equals(ta)
Compare ==
    /\ ~teq.done
    /\ teq' = [done |-> TRUE, ab |-> Equals(ta, tb), ba |-> Equals(tb, ta)]
    /\ UNCHANGED <<ta, tb>>
    /\ UNCHANGED <<pvars, avars, lvars, xvars, bvars>>

TypeInit ==
    InitTypes /\ IdleParser /\ IdleAnalyzer /\ InitLowering /\ IdleLexer /\ IdleBuild
TypeNext == Compare
TypeSpec == TypeInit /\ [][TypeNext]_vars

(***************************************************************************)
(* Properties.                                                             *)
(***************************************************************************)

\* C1: when the lexer's terminal token is an Error token the parser makes no
\* AST node out of it: no statement it yields is the BadExpr built from that
\* token, and for the input `"unclosed` (the Error token alone) it yields no
\* statement at all, only the end-of-stream marker.
C1_ErrorTokenMakesNoNode ==
    LET yielded == stmts \o recv \o output
    IN  /\ \A i \in DOMAIN yielded :
              yielded[i] # BadExpr("invalid symbol", TokError.val)
        /\ toks = <<TokError>> => \A i \in DOMAIN yielded : yielded[i] = EOS

\* C2: for every finite token stream, one ending in an Error token included,
\* Parser.Run and Parser.Do terminate: every iteration of their statement
\* loop moves the parser forward in the stream (it reads a token or takes
\* the lookahead), so the loop reaches the end of the stream and the list of
\* statements is finite.
C2_ParserTerminates ==
    [][(RunStatement \/ DoStatement) => <<tpos, buf>>' # <<tpos, buf>>]_vars

\* C3: after DefineInto and Do the AST's error list holds no two structurally
\* equal errors (so `x := 1 + "text"` yields a single IncompatibleTypesError).
C3_NoDuplicateErrors ==
    pc = "analyzed" =>
        \A i \in DOMAIN ast.errs : \A j \in DOMAIN ast.errs :
            i # j => ~StructurallyEqual(ast.errs[i], ast.errs[j])

\* C4: lowering and the backend run only when the analyzer's error list is
\* empty; when it is not, Compile returns exactly those errors and neither
\* lowering nor the backend has run.
C4_LoweringOnlyWithoutErrors ==
    /\ (pc = "lower" \/ values # <<>> \/ lpos > 0 \/ lpanic # "" \/ backend)
          => Len(ast.errs) = 0
    /\ (pc = "returned" /\ ret.err # "open" /\ Len(ast.errs) # 0)
          => /\ ret = [errs |-> ast.errs, err |-> "nil"]
             /\ values = <<>> /\ lpos = 0 /\ ~backend

\* C4 witness: Compile has returned a non-empty error list
C4_ErrorsReturned ==
    pc = "returned" /\ Len(ast.errs) # 0 /\ ret.errs = ast.errs

\* C5: on a program for which the analyzer reports zero errors (only then
\* does lowering run) every lookup in the value environment finds its name:
\* ValueLookup.Get never panics.
C5_LookupsBound == lpanic # "undefined identifier"

\* C6: every statement of a function body that is an undefined identifier
\* has its UndefinedError in the AST's error list after Do, however many
\* such statements the body has.
C6_AllBodyErrorsKept ==
    pc = "analyzed" =>
        \A i \in DOMAIN prog :
            prog[i].k = "FuncDecl" =>
                \A j \in DOMAIN prog[i].kids :
                    prog[i].kids[j] \in {Identifier("u1"), Identifier("u2"),
                                         Identifier("u3")}
                    => \E n \in DOMAIN ast.errs :
                          /\ ast.errs[n].kind = "UndefinedError"
                          /\ ast.errs[n].name = prog[i].kids[j].v
                          /\ ast.errs[n].site = <<i, j>>

\* C7: when an operand of a BinaryExpr or UnaryExpr has resolved to TypeErr
\* the enclosing expression records no further error and itself resolves to
\* a TypeErr, at any depth: the analysis does not fail, no operator records
\* an error above a site that already carries one, and `y := v` binds y to a
\* TypeErr when an operand of v is an undefined identifier.
C7_CascadeSuppressed ==
    LET ProperPrefix(a, b) == Len(a) < Len(b) /\ SubSeq(b, 1, Len(a)) = a
        OperatorErrors == {"IncompatibleTypesError", "UndefinedOperationError",
                           "UndefinedUnitaryError"}
    IN  /\ apanic = ""
        /\ pc = "analyzed" =>
             /\ \A i \in DOMAIN ast.errs : \A j \in DOMAIN ast.errs :
                   ast.errs[i].kind \in OperatorErrors
                   => ~ProperPrefix(ast.errs[i].site, ast.errs[j].site)
             /\ \A i \in DOMAIN ast.stmts :
                   LET st == ast.stmts[i].expr
                       ent == ast.stmts[i].stab.ent
                   IN  (/\ st.k = "VariableDecl"
                        /\ st.kids[1].k \in {"BinaryExpr", "UnaryExpr"}
                        /\ \E k \in DOMAIN st.kids[1].kids :
                              /\ st.kids[1].kids[k].k = "Identifier"
                              /\ st.kids[1].kids[k].v \notin DOMAIN ent)
                       => ent[st.v].t = "TypeErr"

\* C8: resolving UnaryExpr(-, e) records an UndefinedUnitaryError and gives a
\* TypeErr when e resolves to a type that is neither an error nor int, and
\* records no error and gives int when e resolves to int; seen on `y := -e`.
C8_UnaryMinusOnlyOnInt ==
    pc = "analyzed" =>
        \A i \in DOMAIN ast.stmts :
            LET st == ast.stmts[i].expr
                ent == ast.stmts[i].stab.ent
                TypeOf(a) == IF a.k = "LiteralExpr"
                             THEN (IF a.x = "Number" THEN BasicType("int")
                                   ELSE BasicType("string"))
                             ELSE ent[a.v]
                Resolved(a) == \/ a.k = "LiteralExpr"
                               \/ a.k = "Identifier" /\ a.v \in DOMAIN ent
                                  /\ ent[a.v].t \in {"BasicType", "FuncType", "AnyType"}
                Recorded(kind) == \E n \in DOMAIN ast.errs :
                                     /\ ast.errs[n].kind = kind
                                     /\ ast.errs[n].site = <<i, 1>>
            IN  (/\ st.k = "VariableDecl"
                 /\ st.kids[1].k = "UnaryExpr"
                 /\ Resolved(st.kids[1].kids[1]))
                => IF TypeOf(st.kids[1].kids[1]) = BasicType("int")
                   THEN ~Recorded("UndefinedUnitaryError") /\ ent[st.v] = BasicType("int")
                   ELSE Recorded("UndefinedUnitaryError") /\ ent[st.v].t = "TypeErr"

\* C9: for a BinaryExpr over operands of non-error types t1 and t2 exactly
\* one outcome occurs: unequal types give an IncompatibleTypesError and
\* TypeErr(incompatible); equal types with an operator that is not admitted
\* give an UndefinedOperationError and a TypeErr; otherwise no error and the
\* result t1.  The outcome is the same with the operands swapped.  Seen on
\* `y := a op b`.
C9_BinaryOutcome ==
    pc = "analyzed" =>
        \A i \in DOMAIN ast.stmts :
            LET st == ast.stmts[i].expr
                ent == ast.stmts[i].stab.ent
                TypeOf(a) == IF a.k = "LiteralExpr"
                             THEN (IF a.x = "Number" THEN BasicType("int")
                                   ELSE BasicType("string"))
                             ELSE ent[a.v]
                Resolved(a) == \/ a.k = "LiteralExpr"
                               \/ a.k = "Identifier" /\ a.v \in DOMAIN ent
                                  /\ ent[a.v].t \in {"BasicType", "FuncType", "AnyType"}
                Outcome(t1, t2, op) ==
                    IF ~Equals(t1, t2) THEN "IncompatibleTypesError"
                    ELSE IF ~isOpDefined(t1, op) THEN "UndefinedOperationError"
                    ELSE "none"
                Kinds == {ast.errs[n].kind :
                             n \in {m \in DOMAIN ast.errs : ast.errs[m].site = <<i, 1>>}}
            IN  (/\ st.k = "VariableDecl"
                 /\ st.kids[1].k = "BinaryExpr"
                 /\ Resolved(st.kids[1].kids[1])
                 /\ Resolved(st.kids[1].kids[2]))
                => LET t1 == TypeOf(st.kids[1].kids[1])
                       t2 == TypeOf(st.kids[1].kids[2])
                       o == Outcome(t1, t2, st.kids[1].v)
                   IN  /\ Kinds = (IF o = "none" THEN {} ELSE {o})
                       /\ ent[st.v] = (CASE o = "IncompatibleTypesError" ->
                                               TypeErr(TypeErrIncompatible)
                                         [] o = "UndefinedOperationError" ->
                                               TypeErr(TypeErrBadOp)
                                         [] OTHER -> t1)
                       /\ o = Outcome(t2, t1, st.kids[1].v)

\* C10: type equality is symmetric, a.Equals(b) iff b.Equals(a), and a
\* TypeErr equals nothing on either side, itself included.
C10_EqualsSymmetric ==
    teq.done =>
        /\ teq.ab = teq.ba
        /\ (ta.t = "TypeErr" \/ tb.t = "TypeErr") => ~teq.ab /\ ~teq.ba

\* C11: a second run of Do on the same analyzer, the same cached input and
\* the same global table yields an AST equal to the first run's: the same
\* statements with the same tables, the same error list, the same resolved
\* type on every VariableDecl and one resolved type per argument on every
\* FuncCall, as after the first run.
C11_SecondRunEqual ==
    (pc = "analyzed" /\ first.ran) =>
        /\ Len(ast.stmts) = Len(first.ast.stmts)
        /\ \A i \in DOMAIN ast.stmts :
              /\ ast.stmts[i].expr = first.ast.stmts[i].expr
              /\ ast.stmts[i].stab.ent = first.ast.stmts[i].stab.ent
        /\ Len(ast.errs) = Len(first.ast.errs)
        /\ \A i \in DOMAIN ast.errs :
              StructurallyEqual(ast.errs[i], first.ast.errs[i])
        /\ ann = first.ann

\* C12: after analysis every VariableDecl, at file scope or in a function
\* body, carries exactly one resolved type that is neither unset nor a nil
\* pointer; it is a TypeErr exactly when an error was recorded for the
\* declaration's value expression, and a non-error type exactly when none was.
C12_DeclTypeMatchesErrors ==
    pc = "analyzed" =>
        \A i \in DOMAIN ast.stmts :
            LET e == ast.stmts[i].expr
                errs == ast.stmts[i].stab.errs
                recorded(site) ==
                    \E j \in DOMAIN errs :
                        /\ Len(errs[j].site) >= Len(site)
                        /\ SubSeq(errs[j].site, 1, Len(site)) = site
                settled(site) ==
                    /\ site \in DOMAIN ann
                    /\ Len(ann[site]) = 1
                    /\ ann[site][1].t \in {"BasicType", "FuncType", "AnyType",
                                           "ArgumentType", "TypeErr"}
                    /\ (ann[site][1].t = "TypeErr") <=> recorded(Append(site, 1))
            IN  /\ e.k = "VariableDecl" => settled(<<i>>)
                /\ e.k = "FuncDecl" =>
                      \A j \in DOMAIN e.kids :
                          e.kids[j].k = "VariableDecl" => settled(<<i, j>>)

\* C13: file-scope visibility after DefineInto then Do.  A call, at file
\* scope or in a function body, to a function declared anywhere in the file
\* records no UndefinedError; a file-scope VariableDecl whose value refers to
\* a file-scope variable records no UndefinedError for it when the variable
\* is declared earlier in the file, and records one when it is declared only
\* later.
C13_FileScopeVisibility ==
    pc = "analyzed" =>
        LET RECURSIVE ExprAt(_, _)
            ExprAt(e, path) ==
                IF path = <<>> THEN e
                ELSE IF Head(path) \in DOMAIN e.kids
                     THEN ExprAt(e.kids[Head(path)], Tail(path))
                     ELSE NilExpr
            RECURSIVE Mentions(_, _)
            Mentions(e, name) ==
                \/ e.k = "Identifier" /\ e.v = name
                \/ \E j \in DOMAIN e.kids : Mentions(e.kids[j], name)
            declared(kind) ==
                {prog[i].v : i \in {j \in DOMAIN prog : prog[j].k = kind}}
            undefinedAt(i, name) ==
                \E j \in DOMAIN ast.errs :
                    /\ ast.errs[j].kind = "UndefinedError"
                    /\ ast.errs[j].name = name
                    /\ Head(ast.errs[j].site) = i
        IN  /\ \A j \in DOMAIN ast.errs :
                  LET err == ast.errs[j]
                      at == ExprAt(prog[Head(err.site)], Tail(err.site))
                  IN  ~ /\ err.kind = "UndefinedError"
                        /\ at.k = "FuncCall"
                        /\ at.v = err.name
                        /\ err.name \in declared("FuncDecl")
            /\ \A i \in DOMAIN prog :
                  \A x \in declared("VariableDecl") :
                      (prog[i].k = "VariableDecl" /\ Mentions(prog[i].kids[1], x)) =>
                          LET earlier == \E j \in 1..(i - 1) :
                                            prog[j].k = "VariableDecl" /\ prog[j].v = x
                          IN  undefinedAt(i, x) <=> ~earlier

\* C14: once the lexer has sent an Error token it sends no further token,
\* an EOF token included: an Error token is the last token of the stream.
C14_NothingAfterError ==
    \A i \in DOMAIN emitted : emitted[i].typ = "Error" => i = Len(emitted)

\* C15: once Get has returned the EOF token, every later Get returns a token
\* of kind EOF, also after Do has closed the channel.
C15_StaysAtEOF ==
    \A i \in DOMAIN got :
        \A j \in DOMAIN got : (i < j /\ got[i].typ = "EOF") => got[j].typ = "EOF"

\* C16: the lexer recognises the whole token set.  For a stream that starts
\* with one of the words func, if, else or one of the operators / * == := ,
\* standing alone or followed by a space, the first token sent is that word's
\* own kind with the word as its text: Func, If, Else, Div, Multi,
\* BooleanEquals, Declaration, Comma; never Identifier and never Error.
C16_WholeTokenSet ==
    LET kinds == (<<"f", "u", "n", "c">> :> "Func") @@ (<<"i", "f">> :> "If")
                 @@ (<<"e", "l", "s", "e">> :> "Else") @@ (<<"/">> :> "Div")
                 @@ (<<"*">> :> "Multi") @@ (<<"=", "=">> :> "BooleanEquals")
                 @@ (<<":", "=">> :> "Declaration") @@ (<<",">> :> "Comma")
    IN  \A w \in DOMAIN kinds :
            ( /\ Len(input) >= Len(w)
              /\ SubSeq(input, 1, Len(w)) = w
              /\ runeAt(Len(w) + 1) \in {EOFRune, " "}
              /\ emitted # <<>> )
            => emitted[1] = Tok(kinds[w], String(w))

\* C17: a token sequence of number literals joined by + - * /, possibly with
\* a parenthesised group, parses into exactly one statement; * and / bind
\* tighter than + and -, a chain of operators of one precedence nests to the
\* right, and a parenthesised group is a single operand.  The expected tree
\* splits the sequence at its first + or - outside parentheses, else at its
\* first * or / outside parentheses, else removes the enclosing parentheses.
C17_PrecedenceAndNesting ==
    LET run == SubSeq(toks, 1, Len(toks) - 1)
        RECURSIVE Tree(_)
        Tree(ts) ==
            LET depth(i) ==
                    Cardinality({k \in 1..(i - 1) : ts[k].typ = "OpenParen"})
                    - Cardinality({k \in 1..(i - 1) : ts[k].typ = "CloseParen"})
                top(kinds) ==
                    {i \in DOMAIN ts : ts[i].typ \in kinds /\ depth(i) = 0}
                least(is) == CHOOSE i \in is : \A k \in is : i <= k
                split(i) ==
                    BinaryExpr(ts[i].val, Tree(SubSeq(ts, 1, i - 1)),
                               Tree(SubSeq(ts, i + 1, Len(ts))))
            IN  IF top({"Plus", "Minus"}) # {}
                THEN split(least(top({"Plus", "Minus"})))
                ELSE IF top({"Multi", "Div"}) # {}
                THEN split(least(top({"Multi", "Div"})))
                ELSE IF ts[1].typ = "OpenParen"
                THEN Tree(SubSeq(ts, 2, Len(ts) - 1))
                ELSE LiteralExpr("Number", ts[1].val)
    IN  (run \in ArithRuns /\ ppc = "done") =>
            IF mode = "Run"
            THEN stmts = <<Tree(run)>>
            ELSE recv \o output = <<Tree(run), EOS>>

\* 1 - 2 - 3 has been parsed by Run into the right-nested 1 - (2 - 3), and
\* (1 + 2) * 3 into a product whose first operand is the sum
C17_ChainParsed ==
    /\ mode = "Run" /\ ppc = "done"
    /\ toks = <<Tok("Number", "1"), TokMinus, Tok("Number", "2"), TokMinus,
                Tok("Number", "3"), TokEOF>>
    /\ stmts = <<BinaryExpr("-", LiteralExpr("Number", "1"),
                            BinaryExpr("-", LiteralExpr("Number", "2"),
                                       LiteralExpr("Number", "3")))>>

\* C18: a function call is a primary expression.  1 + foo() parses into the
\* single statement BinaryExpr(+, 1, FuncCall(foo)) and foo() + 1 into the
\* single statement BinaryExpr(+, FuncCall(foo), 1), with no BadExpr; and a
\* statement is a VariableDecl only where an Identifier that is not the
\* operand of an operator is followed by :=.
C18_CallIsPrimary ==
    LET parsed == IF mode = "Run" THEN stmts
                  ELSE SelectSeq(recv \o output, LAMBDA e : e # EOS)
        one == LiteralExpr("Number", "1")
        call == FuncCall("foo", <<>>)
    IN  ppc = "done" =>
            /\ toks = <<TokNumber, TokPlus, TokFoo, TokOpenParentheses,
                        TokCloseParentheses, TokEOF>>
                  => parsed = <<BinaryExpr("+", one, call)>>
            /\ toks = <<TokFoo, TokOpenParentheses, TokCloseParentheses, TokPlus,
                        TokNumber, TokEOF>>
                  => parsed = <<BinaryExpr("+", call, one)>>
            /\ (\E i \in DOMAIN parsed : parsed[i].k = "VariableDecl")
                  => \E k \in 1..(Len(toks) - 1) :
                        /\ toks[k].typ = "Identifier"
                        /\ toks[k + 1].typ = "Declaration"
                        /\ k > 1 => toks[k - 1].typ \notin {"Plus", "Minus", "Multi", "Div"}

\* C19: a failed expectation inside a function call makes the statement a
\* BadExpr with the message "bad function call", and the token found in
\* place of the expected one is not silently dropped: for foo ( 1 2 ),
\* foo ( 1 and foo ( 1 } the first statement is that BadExpr, and the 2 of
\* foo ( 1 2 ) still occurs in what was parsed.
C19_BadCallReported ==
    LET parsed == IF mode = "Run" THEN stmts
                  ELSE SelectSeq(recv \o output, LAMBDA e : e # EOS)
        RECURSIVE Occurs(_, _)
        Occurs(e, text) ==
            \/ e.v = text
            \/ e.x = text
            \/ \E j \in DOMAIN e.kids : Occurs(e.kids[j], text)
        two == Tok("Number", "2")
        unseparated == <<TokFoo, TokOpenParentheses, TokNumber, two,
                         TokCloseParentheses, TokEOF>>
        unclosed == <<TokFoo, TokOpenParentheses, TokNumber, TokEOF>>
        misclosed == <<TokFoo, TokOpenParentheses, TokNumber, TokCloseCurly, TokEOF>>
    IN  (ppc = "done" /\ toks \in {unseparated, unclosed, misclosed}) =>
            /\ parsed # <<>>
            /\ parsed[1].k = "BadExpr"
            /\ parsed[1].v = "bad function call"
            /\ toks = unseparated =>
                  \E i \in DOMAIN parsed : Occurs(parsed[i], "2")

\* C20: in every function of the IR module every basic block, entry,
\* condition, then, else or continuation, ends in a terminator (ret, br or
\* condbr), whatever mix of ifs and plain statements the body holds.
C20_EveryBlockTerminated ==
    \A i \in DOMAIN mod :
        \A j \in DOMAIN mod[i].blocks :
            mod[i].blocks[j].term \in {"ret", "br", "condbr"}

\* a function whose body holds two ifs, one with an else and one without,
\* with a plain statement between them, has been lowered
C20_IfsLowered ==
    \E i \in DOMAIN mod :
        /\ Len(mod[i].blocks) = 8
        /\ mod[i].blocks[1].term = "br"
        /\ mod[i].blocks[2].term = "condbr"
        /\ mod[i].blocks[3].insts # <<>>
        /\ mod[i].blocks[8].term = "ret"
        /\ \E k \in DOMAIN prog :
              /\ prog[k].k = "FuncDecl"
              /\ prog[k].v = mod[i].name
              /\ prog[k].kids[2].k = "VariableDecl"

\* C21: lowering a function leaves the builder's value environment as it
\* was saved on entry, that is the enclosing environment with the function's
\* own name bound: no name bound in the body or in its if branches stays
\* visible, and no enclosing binding is removed or changed.
C21_EnvironmentRestored ==
    [][(pc = "lower" /\ lpos < Len(ast.stmts)
            /\ ast.stmts[lpos + 1].expr.k = "FuncDecl")
          => values' = (ast.stmts[lpos + 1].expr.v
                           :> Value("func", ast.stmts[lpos + 1].expr.v)) @@ values]_vars

\* main, whose body declares z, has been lowered and z is not bound afterwards
C21_BodyBindingGone ==
    /\ pc = "lower"
    /\ lpanic = ""
    /\ \E i \in 1..lpos :
          /\ ast.stmts[i].expr.k = "FuncDecl"
          /\ \E j \in DOMAIN ast.stmts[i].expr.kids :
                ast.stmts[i].expr.kids[j].k = "VariableDecl"
          /\ ast.stmts[i].expr.v \in DOMAIN values
    /\ "z" \notin DOMAIN values

\* C22: lowering the program if 1 == 1 { print(1) } else { print(2) }, as
\* written or as the body of main, yields a function whose if/else is exactly
\* four blocks, entry, then, else and join: the entry block computes the
\* predicate and ends in the conditional branch to then or else, then and
\* else each call print and branch to join, and join comes last.
C22_IfElseFourBlocks ==
    (pc = "lower" /\ lpos = Len(ast.stmts)
        /\ prog \in {<<IfElse>>, <<FuncDecl("main", <<IfElse>>)>>}) =>
        \E i \in DOMAIN mod :
            LET b == mod[i].blocks
            IN  /\ Len(b) = 4
                /\ \E k \in DOMAIN b[1].insts : b[1].insts[k].op = "=="
                /\ b[1].term = "condbr"
                /\ b[1].targets = <<b[2].id, b[3].id>>
                /\ b[2].term = "br" /\ b[2].targets = <<b[4].id>>
                /\ b[3].term = "br" /\ b[3].targets = <<b[4].id>>
                /\ \A k \in {2, 3} :
                      \E n \in DOMAIN b[k].insts : b[k].insts[n].op = "call"

\* ---------------------------------------------------------------------------
\* The lexer with the consumer of Lexer.Run: it receives until the first Error
\* or EOF token and then returns, leaving the channel alone.

\* Run has returned: an Error or EOF token was received
runReturned == \E i \in DOMAIN got : got[i].typ \in {"Error", "EOF"}

\* one iteration of the for/select loop of Run
LexerRun ==
    /\ lstate # "idle"
    /\ ~runReturned
    /\ chan # <<>>
    /\ got' = Append(got, Head(chan))
    /\ chan' = Tail(chan)
    /\ UNCHANGED <<input, rd, lstate, chanClosed, pos, tokStart, locs>>
    /\ UNCHANGED <<pvars, avars, lvars, tvars, bvars>>

\* the steps of the goroutine running Do
LexerDo ==
    \/ startState
    \/ numberState
    \/ stringState
    \/ identifierState
    \/ operatorState
    \/ lineCommentState
    \/ endState
    \/ LexerClose

LexRunNext == LexerDo \/ LexerRun

\* both goroutines are scheduled while they can run
LexRunSpec == LexInit /\ [][LexRunNext]_vars /\ WF_vars(LexerDo) /\ WF_vars(LexerRun)

\* C23: the goroutine of Do never stays blocked on a send: for every input it
\* sends its final EOF token and closes the channel, also when the consumer
\* stops receiving at the first Error or EOF token.
C23_ProducerFinishes ==
    <>(chanClosed /\ emitted # <<>> /\ emitted[Len(emitted)].typ = "EOF")

\* the consumer returned on an Error token, the EOF token stayed in the buffer
\* and the channel is closed
C23_StoppedOnError ==
    /\ chanClosed
    /\ runReturned
    /\ got[Len(got)].typ = "Error"
    /\ chan # <<>>

BuildInit ==
    InitBuild /\ IdleParser /\ IdleAnalyzer /\ InitLowering /\ IdleTypes /\ IdleLexer

BuildSpec == BuildInit /\ [][BuildNext]_vars

\* C24: when the backend has failed, because it could not be started or
\* because it exited with an error, build has returned the error or one of
\* its tasks can still take a step: the task writing the IR into the pipe
\* never leaves build blocked for ever.
C24_BackendFailureReturned ==
    cmd \in {"startFailed", "exited1"} => (built = "err" \/ ENABLED BuildNext)

\* the input without its white space, its line comments and the delimiters of
\* its strings, from position i on (inString: i is inside a string)
RECURSIVE Content(_, _)
Content(i, inString) ==
    IF i > Len(input) THEN ""
    ELSE LET r == input[i]
             eol == CHOOSE j \in i..(Len(input) + 1) :
                        /\ \A k \in i..(j - 1) : input[k] # "\n"
                        /\ j <= Len(input) => input[j] = "\n"
         IN  IF inString
             THEN IF r = "\"" THEN Content(i + 1, FALSE) ELSE r \o Content(i + 1, TRUE)
             ELSE IF r = "\"" THEN Content(i + 1, TRUE)
             ELSE IF r \in Spaces THEN Content(i + 1, FALSE)
             ELSE IF r = "/" /\ runeAt(i + 1) = "/" THEN Content(eol, FALSE)
             ELSE r \o Content(i + 1, FALSE)

\* the values of the tokens ts, one after the other
RECURSIVE Text(_)
Text(ts) == IF ts = <<>> THEN "" ELSE Head(ts).val \o Text(Tail(ts))

\* C25: for any input that is lexed to its end without an Error token, the
\* text of the tokens sent, in order and leaving out the sentinels and the
\* comment tokens, is the content of the input that is neither white space
\* nor comment, without the delimiters of the strings.
C25_TextReconstructsContent ==
    (chanClosed /\ \A i \in DOMAIN emitted : emitted[i].typ # "Error") =>
        Text(SelectSeq(emitted, LAMBDA t : t.typ \notin {"EOF", "Error", "LineComment"}))
            = Content(1, FALSE)

\* C26: peek never moves l.pos and next moves it by one for every rune it
\* consumes, whatever the rune: between two states of the lexer l.pos is the
\* number of runes taken from the reader; every token that has a location
\* has start <= end, and starts where the located token before it ended.
C26_PosCountsRunesConsumed ==
    lstate # "idle" =>
        /\ pos = rd - 1
        /\ \A i \in DOMAIN locs : locs[i] # NoLoc => locs[i].start <= locs[i].end
        /\ \A i, j \in DOMAIN locs :
              (/\ i < j
               /\ locs[i] # NoLoc
               /\ locs[j] # NoLoc
               /\ \A k \in (i + 1)..(j - 1) : locs[k] = NoLoc)
                  => locs[j].start = locs[i].end

\* C27: phase 2 processes the expressions phase 1 pulled, in their order and
\* from the cache. The parser is asked for Len(prog) expressions and once for
\* the end-of-stream marker, never again; once the marker was received the
\* cache holds what was pulled and neither a run of Do nor the restart of one
\* pulls from the parser, extends the cache or resets the flag that guards
\* the start of the parser task; the statements of the AST are, one by one,
\* the expressions of the cache, and all of them when Do returns.
C27_PhaseTwoReadsCache ==
    /\ [](/\ src <= Len(prog) + 1
          /\ (pc \in {"do", "analyzed"}) =>
                /\ ~live /\ started
                /\ src = Len(prog) + 1
                /\ cache = prog
                /\ Len(ast.stmts) <= Len(cache)
                /\ \A i \in DOMAIN ast.stmts : ast.stmts[i].expr = cache[i]
          /\ (pc = "analyzed") => Len(ast.stmts) = Len(cache))
    /\ [][/\ started => started'
          /\ ~live => (~live' /\ src' = src /\ cache' = cache)]_vars

\* Do ran twice over a program of several statements
C27_SecondRunFromCache ==
    /\ pc = "analyzed"
    /\ first.ran
    /\ Len(prog) >= 2
    /\ Len(ast.stmts) = Len(prog)
    /\ src = Len(prog) + 1

\* C28: phase 2 leaves the global symbol table as it was given, a snapshot
\* attached to a statement is not changed by the analysis of later statements,
\* and a name declared only inside the body of one function is in the
\* snapshot of that function, in no other snapshot and not in the global
\* table, while every other top-level statement that refers to the name has
\* an UndefinedError for it in the AST's error list.
C28_BodyNamesStayLocal ==
    /\ [][(pc \in {"defined", "do", "analyzed"} /\ pc' # "crashed")
             => /\ global' = global
                /\ pc = "do" =>
                      \A i \in DOMAIN ast.stmts :
                          /\ i \in DOMAIN ast'.stmts
                          /\ ast'.stmts[i] = ast.stmts[i]]_vars
    /\ [](pc = "analyzed" =>
            LET RECURSIVE Mentions(_, _)
                Mentions(e, name) ==
                    \/ e.k = "Identifier" /\ e.v = name
                    \/ \E j \in DOMAIN e.kids : Mentions(e.kids[j], name)
                RECURSIVE Declares(_, _)
                Declares(e, name) ==
                    \/ e.k = "VariableDecl" /\ e.v = name
                    \/ \E j \in DOMAIN e.kids : Declares(e.kids[j], name)
                \* the names that statement i, a function, declares in its body
                bodyNames(i) ==
                    IF prog[i].k # "FuncDecl" THEN {}
                    ELSE {n \in {"z"} :
                            \E j \in DOMAIN prog[i].kids : Declares(prog[i].kids[j], n)}
            IN  \A i \in DOMAIN prog : \A n \in bodyNames(i) :
                    /\ n \in DOMAIN ast.stmts[i].stab.ent
                    /\ n \notin DOMAIN global.ent
                    /\ \A j \in DOMAIN prog \ {i} :
                          ~Declares(prog[j], n) =>
                              /\ n \notin DOMAIN ast.stmts[j].stab.ent
                              /\ Mentions(prog[j], n) =>
                                    \E k \in DOMAIN ast.errs :
                                        /\ ast.errs[k].kind = "UndefinedError"
                                        /\ ast.errs[k].name = n
                                        /\ Head(ast.errs[k].site) = j)

\* C29: every Number literal of a program that reached lowering is lowered
\* to a constant, the one with its decimal value, and lowering never fails on
\* the conversion of a numeral.
C29_NumberLiteralLowered ==
    /\ lpanic # "strconv.ParseInt"
    /\ pc = "lower" =>
          \A i \in DOMAIN prog :
              (prog[i].k = "FuncDecl" /\ Len(prog[i].kids) = 1
                  /\ prog[i].kids[1].k = "VariableDecl"
                  /\ prog[i].kids[1].kids[1].k = "LiteralExpr"
                  /\ prog[i].kids[1].kids[1].x = "Number")
              => LET n == prog[i].kids[1].kids[1].v
                     c == loadLiteral(NewLLVMIRBuilder, Num(n))
                 IN  /\ c.L.panic = ""
                     /\ c.v = Value("const", IF n = "007" THEN "7" ELSE n)

\* C30: lowering drops no statement of a function body, whatever its
\* nesting: the function just lowered has one call instruction for every
\* call statement of the body, counted through the branches of its ifs and of
\* the ifs nested in them, and one conditional branch for every if.
C30_NoStatementDropped ==
    LET RECURSIVE Count(_, _)
        \* the statements of kind k in es, through every branch
        Count(es, k) ==
            IF es = <<>> THEN 0
            ELSE (IF Head(es).k = k THEN 1 ELSE 0)
                 + (IF Head(es).k = "IfExpr"
                    THEN Count(Head(es).thn, k) + Count(Head(es).els, k) ELSE 0)
                 + Count(Tail(es), k)
        RECURSIVE Insts(_)
        Insts(bs) == IF bs = <<>> THEN <<>> ELSE Head(bs).insts \o Insts(Tail(bs))
        calls(fn) == Len(SelectSeq(Insts(fn.blocks), LAMBDA in : in.op = "call"))
        condbrs(fn) == Len(SelectSeq(fn.blocks, LAMBDA b : b.term = "condbr"))
    IN  (/\ pc = "lower" /\ lpos >= 1 /\ mod # <<>>
         /\ ast.stmts[lpos].expr.k = "FuncDecl")
        => /\ calls(mod[Len(mod)]) = Count(ast.stmts[lpos].expr.kids, "FuncCall")
           /\ condbrs(mod[Len(mod)]) = Count(ast.stmts[lpos].expr.kids, "IfExpr")

====
